---- MODULE Spec2Model ----
(***************************************************************************)
(* Model of the cabinet-isolation scripts: the reference scanners and the  *)
(* closure / pruning loops of clean_commented_refs.py, cleanup_orphans.py, *)
(* validate_refs.py and fix_cross_refs.py.                                 *)
(*                                                                         *)
(* A file is a sequence of lines, a line a sequence of elements.  An       *)
(* element is one character, or one whole reference string (a reference    *)
(* never holds a comment marker in the inputs drawn here):                 *)
(*   Full(o)   objects/objects_<CABINET>/<o>.xml   (this cabinet)          *)
(*   Alien(o)  objects/objects_<OTHER>/<o>.xml     (another cabinet)       *)
(*   Old(o)    objects/<o>.xml                     (un-prefixed)           *)
(* Object files are named by numbers; their order is the order sorted()    *)
(* gives the relative paths.                                               *)
(***************************************************************************)
EXTENDS Integers, Sequences, FiniteSets, TLC

VARIABLES
    prog,     \* the script that runs: "ccr", "co", "vr" or "fcr"
    pc,       \* its position
    run,      \* 1 for the first run on the directory, 2 for the next one
    apply,    \* --apply (clean_commented_refs), mode 2 (cleanup_orphans)
    mnemo,    \* vision/LCSMnemo/<CABINET>/: the text of the mnemonic file
    objs,     \* objects/objects_<CABINET>/: file name -> text
    shared,   \* objects/: the shared object folder, file name -> text
    fs0,      \* the directory contents the first run started from
    loc,      \* the local variables of the running script
    hist,     \* one summary per finished run
    audit,    \* the unlink calls: run, file, and who referenced it actively then
    report    \* the report file the run wrote

vars == <<prog, pc, run, apply, mnemo, objs, shared, fs0, loc, hist, audit, report>>

-----------------------------------------------------------------------------
(* Bounds *)

\* lines of the free-text object file
MaxLines == 3
\* length of the long reference chain (must exceed the iteration cap)
MaxChain == 52
\* consecutive runs of a pruning script on the same directory
MaxRuns == 2
\* object files of the small reference graphs
NumNodes == 2
\* the longest line handed to strip_comments on its own
MaxStripLen == 5
\* the number of pieces a text handed to the brace matchers is made of
MaxPieces == 4

\* cleanup_orphans.collect_referenced_files: "if iteration > 50: break"
CoIterCap == 50

\* fix_cross_refs.process_cabinet: "if iteration > 50"
FcrIterCap == 50

-----------------------------------------------------------------------------
(* Text elements *)

Ch(c) == [k |-> "ch", c |-> c, o |-> 0]
Full(o) == [k |-> "full", c |-> "", o |-> o]
Alien(o) == [k |-> "alien", c |-> "", o |-> o]
Old(o) == [k |-> "old", c |-> "", o |-> o]
Ref(k, o) == [k |-> k, c |-> "", o |-> o]

IsCh(e, c) == e.k = "ch" /\ e.c = c

\* line[i..i+1] is the two characters a, b
PairAt(line, i, a, b) ==
    /\ i >= 1
    /\ i + 1 <= Len(line)
    /\ IsCh(line[i], a)
    /\ IsCh(line[i + 1], b)

\* re.search of a two-character pattern in a line
HasPair(line, a, b) == \E i \in 1..Len(line) : PairAt(line, i, a, b)

\* str.find of a two-character pattern: the first index (1-based), 0 when absent
FindPair(line, a, b) ==
    IF HasPair(line, a, b)
    THEN CHOOSE i \in 1..Len(line) :
            /\ PairAt(line, i, a, b)
            /\ \A j \in 1..(i - 1) : ~PairAt(line, j, a, b)
    ELSE 0

BLOCK_COMMENT_START(line) == HasPair(line, "/", "*")
BLOCK_COMMENT_END(line) == HasPair(line, "*", "/")

\* index of the first element that is not white space (Len+1 when none)
FirstNonSpace(line) ==
    IF \E i \in 1..Len(line) : ~IsCh(line[i], " ")
    THEN CHOOSE i \in 1..Len(line) :
            /\ ~IsCh(line[i], " ")
            /\ \A j \in 1..(i - 1) : IsCh(line[j], " ")
    ELSE Len(line) + 1

\* line.strip() == ""
IsBlank(line) == FirstNonSpace(line) > Len(line)

\* index of the last element that is not white space (0 when none)
LastNonSpace(line) ==
    IF IsBlank(line) THEN 0
    ELSE CHOOSE i \in 1..Len(line) :
            /\ ~IsCh(line[i], " ")
            /\ \A j \in (i + 1)..Len(line) : IsCh(line[j], " ")

is_line_commented(line) == PairAt(line, FirstNonSpace(line), "/", "/")

\* line.strip() == "//"
IsBareMarker(line) ==
    /\ is_line_commented(line)
    /\ LastNonSpace(line) = FirstNonSpace(line) + 1

\* REF_RE.finditer(line), kept when "objects/<obj_prefix>/" is in the match:
\* the positions of the references to this cabinet's objects, left to right
RECURSIVE RefPositions(_, _)
RefPositions(line, i) ==
    IF i > Len(line) THEN <<>>
    ELSE (IF line[i].k = "full" THEN <<i>> ELSE <<>>) \o RefPositions(line, i + 1)

-----------------------------------------------------------------------------
(* clean_commented_refs.classify_refs_in_file *)

\* the occurrences of one line: [line, pos, rel, active]
RECURSIVE LineOccs(_, _, _, _)
LineOccs(line, line_no, ps, allCommented) ==
    IF ps = <<>> THEN <<>>
    ELSE LET p == Head(ps)
             pos == FindPair(line, "/", "/")
             act == /\ ~allCommented
                    /\ ~is_line_commented(line)
                    /\ ~(pos > 0 /\ p > pos)
         IN  <<[line |-> line_no, pos |-> p, rel |-> line[p].o, active |-> act]>>
                \o LineOccs(line, line_no, Tail(ps), allCommented)

RECURSIVE ClassifyFrom(_, _, _)
ClassifyFrom(text, line_no, in_block_comment) ==
    IF line_no > Len(text) THEN <<>>
    ELSE LET line == text[line_no]
             ps == RefPositions(line, 1)
         IN  IF in_block_comment
             THEN LineOccs(line, line_no, ps, TRUE)
                    \o ClassifyFrom(text, line_no + 1, ~BLOCK_COMMENT_END(line))
             ELSE IF BLOCK_COMMENT_START(line) /\ ~BLOCK_COMMENT_END(line)
             THEN LineOccs(line, line_no, ps, TRUE)
                    \o ClassifyFrom(text, line_no + 1, TRUE)
             ELSE LineOccs(line, line_no, ps, FALSE)
                    \o ClassifyFrom(text, line_no + 1, FALSE)

\* every reference occurrence of a file with its verdict, in line order
classify_refs_in_file(text) == ClassifyFrom(text, 1, FALSE)

Range(s) == {s[i] : i \in 1..Len(s)}

\* a classifier whose every occurrence counts as active
ActiveRefsEveryOccurrence(text) == {oc.rel : oc \in Range(classify_refs_in_file(text))}

\* the first component of the result: the set of actively referenced paths
ActiveRefs(text) == {oc.rel : oc \in {x \in Range(classify_refs_in_file(text)) : x.active}}

IsCommentedOcc(oc) == ~oc.active

\* the second component: the commented occurrences, in line order
CommentedRefs(text) == SelectSeq(classify_refs_in_file(text), IsCommentedOcc)

-----------------------------------------------------------------------------
(* Files *)

MnemoFile == [d |-> "m", n |-> 0]
ObjFile(n) == [d |-> "o", n |-> n]

\* read_text_safe: the text of a file, the empty text when it cannot be read
TextOf(f, m, os) ==
    IF f.d = "m" THEN m
    ELSE IF f.n \in DOMAIN os THEN os[f.n] ELSE <<>>

\* sorted(S)
Sorted(S) ==
    [i \in 1..Cardinality(S) |->
        CHOOSE x \in S : Cardinality({y \in S : y < x}) = i - 1]

\* the function os without the key n (Path.unlink)
Unlink(os, n) == [x \in (DOMAIN os) \ {n} |-> os[x]]

-----------------------------------------------------------------------------
(* clean_commented_refs.find_comment_orphans *)

\* the commented occurrences of one file as (rel, file, line_no) locations
RECURSIVE LocsIn(_, _)
LocsIn(f, occs) ==
    IF occs = <<>> THEN <<>>
    ELSE <<[rel |-> Head(occs).rel, file |-> f, line_no |-> Head(occs).line]>>
            \o LocsIn(f, Tail(occs))

\* the scan order of rglob over the mnemonic directory, then the object one
RECURSIVE ScanFiles(_)
ScanFiles(names) ==
    IF names = <<>> THEN <<>>
    ELSE <<ObjFile(Head(names))>> \o ScanFiles(Tail(names))

ScanOrder(os) == <<MnemoFile>> \o ScanFiles(Sorted(DOMAIN os))

RECURSIVE CommentedGlobal(_, _, _)
CommentedGlobal(files, m, os) ==
    IF files = <<>> THEN <<>>
    ELSE LocsIn(Head(files), CommentedRefs(TextOf(Head(files), m, os)))
            \o CommentedGlobal(Tail(files), m, os)

\* lines 166-172: the active references of every scanned file
ScanActive(m, os) ==
    ActiveRefs(m) \cup UNION ({ActiveRefs(os[n]) : n \in DOMAIN os})

\* one pass of the while loop (lines 177-182)
ExpandPass(active_global, os) ==
    active_global \cup
        UNION ({ActiveRefs(os[n]) : n \in active_global \cap DOMAIN os})

\* orphan_locs.get(rel, [])
LocsOf(commented_global, rel) ==
    SelectSeq(commented_global, LAMBDA l : l.rel = rel)

HasLocs(commented_global, rel) ==
    \E i \in 1..Len(commented_global) : commented_global[i].rel = rel

-----------------------------------------------------------------------------
(* clean_commented_refs.clean_commented_block / remove_commented_lines *)

Raise == <<-1>>

\* the backward walk; idx is 0-based as in the source, -1 stands for IndexError
RECURSIVE BlockStart(_, _)
BlockStart(lines, idx) ==
    IF idx <= 0 THEN idx
    ELSE IF idx > Len(lines) THEN -1
    ELSE IF ~is_line_commented(lines[idx]) THEN idx
    ELSE IF IsBareMarker(lines[idx]) \/ IsBlank(lines[idx]) THEN idx
    ELSE BlockStart(lines, idx - 1)

\* the forward walk from 0-based index i: 1-based numbers of the block's lines
RECURSIVE BlockForward(_, _)
BlockForward(lines, i) ==
    IF i >= Len(lines) THEN <<>>
    ELSE IF is_line_commented(lines[i + 1])
         THEN <<i + 1>> \o BlockForward(lines, i + 1)
         ELSE <<>>

\* a block that is the recorded line itself, whatever the line holds now
clean_commented_block_recorded_line(text, start_line) ==
    IF start_line \in 1..Len(text) THEN <<start_line>> ELSE <<>>

\* the list of line numbers, or Raise when the walk indexes past the end
clean_commented_block(text, start_line) ==
    IF text = <<>> THEN <<>>
    ELSE LET idx == BlockStart(text, start_line - 1)
         IN  IF idx < 0 THEN Raise ELSE BlockForward(text, idx)

RECURSIVE KeepLines(_, _, _)
KeepLines(lines, i, line_numbers) ==
    IF i > Len(lines) THEN <<>>
    ELSE (IF i \in line_numbers THEN <<>> ELSE <<lines[i]>>)
            \o KeepLines(lines, i + 1, line_numbers)

\* the text the file holds afterwards
remove_commented_lines(text, line_numbers) == KeepLines(text, 1, line_numbers)

-----------------------------------------------------------------------------
(* cleanup_orphans.collect_referenced_files *)

\* the elements of a text, lines joined
RECURSIVE Flat(_)
Flat(text) == IF text = <<>> THEN <<>> ELSE Head(text) \o Flat(Tail(text))

\* PATTERN_FULL (kept for this cabinet's prefix) and PATTERN_OLD over the
\* whole text, comments included: the relative paths found
GrepRefs(text) == {e.o : e \in {x \in Range(Flat(text)) : x.k \in {"full", "old"}}}

\* a pass that reads the files that are not referenced as well
CoPassEveryFile(referenced, os) ==
    referenced \cup UNION ({GrepRefs(os[n]) : n \in DOMAIN os})

\* a pass that expands nothing
CoPassNothing(referenced, os) == referenced

\* lines 68-82: one pass over list(referenced)
CoPassRefs(referenced, os) ==
    referenced \cup UNION ({GrepRefs(os[n]) : n \in referenced \cap DOMAIN os})

-----------------------------------------------------------------------------
(* validate_refs.strip_comments *)

NL == Ch("nl")

\* the text as read from the file: the lines joined by line terminators
RECURSIVE JoinLines(_, _)
JoinLines(text, i) ==
    IF i > Len(text) THEN <<>>
    ELSE IF i = Len(text) THEN text[i]
    ELSE text[i] \o <<NL>> \o JoinLines(text, i + 1)

\* MULTI_COMMENT.sub('', text): each /* up to the nearest */ after it is cut
RECURSIVE StripBlocks(_, _)
StripBlocks(flat, i) ==
    IF i > Len(flat) THEN <<>>
    ELSE IF /\ PairAt(flat, i, "/", "*")
            /\ \E j \in (i + 2)..Len(flat) : PairAt(flat, j, "*", "/")
         THEN StripBlocks(flat,
                2 + CHOOSE j \in (i + 2)..Len(flat) :
                        /\ PairAt(flat, j, "*", "/")
                        /\ \A h \in (i + 2)..(j - 1) : ~PairAt(flat, h, "*", "/"))
    ELSE <<flat[i]>> \o StripBlocks(flat, i + 1)

\* text.split('\n')
RECURSIVE SplitLines(_, _, _)
SplitLines(flat, i, cur) ==
    IF i > Len(flat) THEN <<cur>>
    ELSE IF flat[i] = NL THEN <<cur>> \o SplitLines(flat, i + 1, <<>>)
    ELSE SplitLines(flat, i + 1, Append(cur, flat[i]))

\* lines 39-65: one line with its // comment cut, quotes respected
RECURSIVE CutLine(_, _, _, _)
CutLine(line, i, in_string, string_char) ==
    IF i > Len(line) THEN <<>>
    ELSE IF in_string
    THEN IF IsCh(line[i], "\\") /\ i + 1 <= Len(line)
         THEN <<line[i], line[i + 1]>> \o CutLine(line, i + 2, TRUE, string_char)
         ELSE <<line[i]>> \o CutLine(line, i + 1, ~IsCh(line[i], string_char), string_char)
    ELSE IF IsCh(line[i], "\"") \/ IsCh(line[i], "'")
         THEN <<line[i]>> \o CutLine(line, i + 1, TRUE, line[i].c)
    ELSE IF PairAt(line, i, "/", "/") THEN <<>>
    ELSE <<line[i]>> \o CutLine(line, i + 1, FALSE, string_char)

\* strip_comments: MULTI_COMMENT.sub over the whole text, then the line pass
strip_comments(text) ==
    LET lines == SplitLines(StripBlocks(JoinLines(text, 1), 1), 1, <<>>)
    IN  [i \in 1..Len(lines) |-> CutLine(lines[i], 1, FALSE, "")]

\* PATTERN.finditer: the reference paths of a text, as (kind, name)
PathsIn(text) ==
    {[tk |-> e.k, rel |-> e.o] : e \in {x \in Range(Flat(text)) : x.k # "ch"}}

\* (PANELS_DIR / ref_path).exists()
PathExists(t, os, sh) ==
    \/ t.tk = "full" /\ t.rel \in DOMAIN os
    \/ t.tk = "old" /\ t.rel \in DOMAIN sh

NoFile == [d |-> "", n |-> 0]

-----------------------------------------------------------------------------
(* fix_cross_refs.process_cabinet *)

\* the folder an object file lies in: objects 1 and 2 share one, 3 and 4, ...
DirOf(o) == (o + 1) \div 2

\* PATTERN.findall(text): the un-prefixed references, in text order
OldMatches(text) == SelectSeq(Flat(text), LAMBDA e : e.k = "old")

\* PATTERN.sub: every un-prefixed reference gets the cabinet prefix
Prefixed(text) ==
    [ln \in 1..Len(text) |->
        [p \in 1..Len(text[ln]) |->
            IF text[ln][p].k = "old" THEN Full(text[ln][p].o) ELSE text[ln][p]]]

\* the keys of objects_to_copy in insertion order
RECURSIVE FirstSeen(_, _)
FirstSeen(ms, seen) ==
    IF ms = <<>> THEN <<>>
    ELSE IF Head(ms).o \in seen THEN FirstSeen(Tail(ms), seen)
    ELSE <<Head(ms).o>> \o FirstSeen(Tail(ms), seen \cup {Head(ms).o})

RECURSIVE AllMatches(_, _)
AllMatches(names, os) ==
    IF names = <<>> THEN <<>>
    ELSE OldMatches(os[Head(names)]) \o AllMatches(Tail(names), os)

\* shutil.copytree(src.parent, dst.parent, dirs_exist_ok=True)
CopyTree(os, sh, dir) ==
    LET from == {o \in DOMAIN sh : DirOf(o) = dir}
    IN  [o \in (DOMAIN os) \cup from |-> IF o \in from THEN sh[o] ELSE os[o]]

\* lines 73-99: the copy loop; st = [objs, copied_dirs, copied, missing, found_new]
RECURSIVE CopyLoop(_, _, _, _)
CopyLoop(order, refs, sh, st) ==
    IF order = <<>> THEN st
    ELSE LET obj_rel == Head(order)
             key == DirOf(obj_rel)
             st1 == [st EXCEPT !.copied_dirs = @ \cup {key}]
         IN  IF key \in st.copied_dirs THEN CopyLoop(Tail(order), refs, sh, st)
             ELSE IF obj_rel \in DOMAIN st.objs THEN CopyLoop(Tail(order), refs, sh, st1)
             ELSE IF obj_rel \in DOMAIN sh
             THEN CopyLoop(Tail(order), refs, sh,
                    [st1 EXCEPT !.objs = CopyTree(st.objs, sh, key),
                                !.copied = @ + 1,
                                !.found_new = TRUE])
             ELSE CopyLoop(Tail(order), refs, sh,
                    [st1 EXCEPT !.missing = @ \cup
                        {[rel |-> obj_rel, src |-> f] : f \in refs[obj_rel]}])

-----------------------------------------------------------------------------
(* The inputs *)

Sl == Ch("/")
St == Ch("*")
Sp == Ch(" ")
Xc == Ch("x")

LCode == <<Xc>>
LBare == <<Sl, Sl>>
LOpen == <<Sl, St>>
LClose == <<St, Sl>>
LRef(t) == <<Full(t)>>
LCommentRef(t) == <<Sp, Sl, Sl, Full(t)>>
LTrailRef(t) == <<Xc, Sl, Sl, Full(t)>>
LInlineRef(t) == <<Sl, St, Full(t), St, Sl>>
LCommentOpenRef(t) == <<Sl, Sl, Sl, St, Full(t)>>

\* lines of code and of comments of every form, with and without references
LineSet ==
    {LCode, LBare, LOpen, LClose, LRef(2), LRef(3), LCommentRef(2),
     LTrailRef(2), LInlineRef(2), LCommentOpenRef(2)}

\* lines with references of every form: this cabinet's, another cabinet's,
\* un-prefixed, in code and in a comment
GrepLineSet ==
    {LCode, LRef(2), LRef(3), LCommentRef(2), <<Old(3)>>, <<Alien(2)>>}

TextsOver(lineSet) == UNION {[1..n -> lineSet] : n \in 0..MaxLines}

\* a mnemonic file, object 1 with a text of the given set, objects 2 and 3
\* with little in them
CabinetInputs(texts) ==
    {[mnemo |-> m, objs |-> (1 :> t1) @@ (2 :> t2) @@ o3] :
        m \in {<<>>, <<LRef(1)>>},
        t1 \in texts,
        t2 \in {<<>>, <<LRef(1)>>},
        o3 \in {<<>>, (3 :> <<>>)}}

TextInputs == CabinetInputs(TextsOver(LineSet))

GrepInputs == CabinetInputs(TextsOver(GrepLineSet))

\* the mnemonic file references object 1, object i references object i+1; the
\* last object references nothing, or object 1 again
ChainInputs ==
    {[mnemo |-> <<LRef(1)>>,
      objs |-> [i \in 1..MaxChain |->
                  IF i < MaxChain THEN <<<<Ref(k, i + 1)>>>>
                  ELSE IF cyc THEN <<<<Ref(k, 1)>>>> ELSE <<>>]] :
        k \in {"full", "old"}, cyc \in BOOLEAN}

\* every reference graph over a few objects, one reference per file, active or
\* in a // comment
GraphTexts ==
    {<<>>} \cup {<<LRef(t)>> : t \in 1..NumNodes}
           \cup {<<LCommentRef(t)>> : t \in 1..NumNodes}

GraphInputs ==
    {[mnemo |-> m, objs |-> os] :
        m \in {<<>>} \cup {<<LRef(t)>> : t \in 1..NumNodes},
        os \in [1..NumNodes -> GraphTexts]}

LOld(t) == <<Old(t)>>

\* a cabinet folder with object 1, whose un-prefixed references lead into the
\* shared folder
FcrSmallInputs ==
    {[mnemo |-> <<>>, objs |-> (1 :> t1), shared |-> sh] :
        t1 \in UNION {[1..n -> {LCode, LOld(2), LOld(3), LOld(4), LRef(2)}] : n \in 0..2},
        sh \in UNION {[S -> {<<>>, <<LOld(4)>>, <<LOld(5)>>}] : S \in SUBSET {2, 3, 4}}}

\* object 1 references 3, which references 5, ...: every one in its own folder
FcrChainInputs ==
    {[mnemo |-> <<>>,
      objs |-> (1 :> <<LOld(3)>>),
      shared |-> [o \in {2 * i + 1 : i \in 1..MaxChain} |-> <<LOld(o + 2)>>]]}

FcrInputs == FcrSmallInputs \cup FcrChainInputs

NoLocals == [none |-> TRUE]

NoShared(F) == {[mnemo |-> fs.mnemo, objs |-> fs.objs, shared |-> <<>>] : fs \in F}

InputsOf(p) ==
    IF p = "co" THEN NoShared(GrepInputs \cup ChainInputs)
    ELSE IF p = "fcr" THEN FcrInputs
    ELSE NoShared(TextInputs)

Init ==
    /\ prog \in {"ccr", "co", "vr", "fcr"}
    /\ pc = "start"
    /\ run = 1
    /\ apply \in (IF prog \in {"ccr", "co"} THEN BOOLEAN ELSE {FALSE})
    /\ \E fs \in InputsOf(prog) :
        /\ mnemo = fs.mnemo
        /\ objs = fs.objs
        /\ shared = fs.shared
        /\ fs0 = fs
    /\ loc = NoLocals
    /\ hist = <<>>
    /\ audit = {}
    /\ report = {}

-----------------------------------------------------------------------------
(* clean_commented_refs.main, one cabinet *)

\* the scanned files that hold an active reference to rel right now
ActiveReferrers(rel, m, os) ==
    {f \in Range(ScanOrder(os)) : rel \in ActiveRefs(TextOf(f, m, os))}

\* find_comment_orphans, lines 149-175
CcrScan ==
    /\ prog = "ccr"
    /\ pc = "start"
    /\ loc' = [all_files |-> DOMAIN objs,
               active_global |-> ScanActive(mnemo, objs),
               commented_global |-> CommentedGlobal(ScanOrder(objs), mnemo, objs),
               scanned |-> [f \in Range(ScanOrder(objs)) |->
                                classify_refs_in_file(TextOf(f, mnemo, objs))],
               prev |-> -1,
               comment_only |-> {},
               pure_orphans |-> {},
               todo |-> <<>>,
               locs |-> <<>>,
               total_files_deleted |-> 0,
               total_lines_removed |-> 0,
               origin |-> [f \in Range(ScanOrder(objs)) |->
                               [i \in 1..Len(TextOf(f, mnemo, objs)) |-> i]],
               removal |-> <<>>]
    /\ pc' = "expand"
    /\ UNCHANGED <<prog, run, apply, mnemo, objs, shared, fs0, hist, audit, report>>

\* find_comment_orphans, lines 176-182: one pass of the while loop
CcrExpand ==
    /\ prog = "ccr"
    /\ pc = "expand"
    /\ Cardinality(loc.active_global) # loc.prev
    /\ loc' = [loc EXCEPT !.prev = Cardinality(loc.active_global),
                          !.active_global = ExpandPass(loc.active_global, objs)]
    /\ UNCHANGED <<prog, pc, run, apply, mnemo, objs, shared, fs0, hist, audit, report>>

\* find_comment_orphans, lines 184-196, and main, lines 307-310
CcrClassify ==
    /\ prog = "ccr"
    /\ pc = "expand"
    /\ Cardinality(loc.active_global) = loc.prev
    /\ LET rest == loc.all_files \ loc.active_global
           co == {rel \in rest : HasLocs(loc.commented_global, rel)}
           po == {rel \in rest : ~HasLocs(loc.commented_global, rel)}
       IN  /\ loc' = [loc EXCEPT !.comment_only = co,
                                 !.pure_orphans = po,
                                 !.todo = Sorted(co)]
           /\ pc' = IF co = {} /\ po = {} THEN "report" ELSE "comment"
    /\ UNCHANGED <<prog, run, apply, mnemo, objs, shared, fs0, hist, audit, report>>

\* main, lines 326-328: the next comment orphan
CcrNextOrphan ==
    /\ prog = "ccr"
    /\ pc = "comment"
    /\ loc.todo # <<>>
    /\ loc' = [loc EXCEPT !.locs = LocsOf(loc.commented_global, Head(loc.todo))]
    /\ pc' = "locs"
    /\ UNCHANGED <<prog, run, apply, mnemo, objs, shared, fs0, hist, audit, report>>

\* main, lines 331-343: one recorded location of the orphan. origin keeps, for
\* each line a file holds now, its line number at the scan; removal is the
\* group of lines this step took out, in the line numbers of the scan
CcrLocation ==
    /\ prog = "ccr"
    /\ pc = "locs"
    /\ loc.locs # <<>>
    /\ LET l == Head(loc.locs)
           text == TextOf(l.file, mnemo, objs)
           block == IF apply THEN clean_commented_block(text, l.line_no) ELSE <<>>
           new_text == remove_commented_lines(text, Range(block))
       IN  IF block = Raise
           THEN /\ pc' = "crashed"
                /\ UNCHANGED <<mnemo, objs, loc>>
           ELSE /\ pc' = pc
                /\ loc' = [loc EXCEPT
                            !.locs = Tail(loc.locs),
                            !.total_lines_removed = @ + Len(block),
                            !.origin = IF block = <<>> THEN @
                                       ELSE [@ EXCEPT ![l.file] =
                                               remove_commented_lines(@, Range(block))],
                            !.removal = IF block = <<>> THEN <<>>
                                        ELSE <<[file |-> l.file,
                                                line_no |-> l.line_no,
                                                lines |-> {loc.origin[l.file][i] :
                                                              i \in Range(block)}]>>]
                /\ mnemo' = IF block # <<>> /\ l.file.d = "m" THEN new_text ELSE mnemo
                /\ objs' = IF block # <<>> /\ l.file.d = "o"
                           THEN [objs EXCEPT ![l.file.n] = new_text]
                           ELSE objs
    /\ UNCHANGED <<prog, run, apply, shared, fs0, hist, audit, report>>

\* fpath.exists() and apply: fpath.unlink()
CcrUnlink(rel, next_pc) ==
    /\ IF rel \in DOMAIN objs /\ apply
       THEN /\ objs' = Unlink(objs, rel)
            /\ audit' = audit \cup
                 {[run |-> run, rel |-> rel, by |-> ActiveReferrers(rel, mnemo, objs)]}
            /\ loc' = [loc EXCEPT !.todo = Tail(loc.todo),
                                  !.total_files_deleted = @ + 1]
       ELSE /\ loc' = [loc EXCEPT !.todo = Tail(loc.todo)]
            /\ UNCHANGED <<objs, audit>>
    /\ pc' = next_pc
    /\ UNCHANGED <<prog, run, apply, mnemo, shared, fs0, hist, report>>

\* main, lines 345-350
CcrUnlinkComment ==
    /\ prog = "ccr"
    /\ pc = "locs"
    /\ loc.locs = <<>>
    /\ CcrUnlink(Head(loc.todo), "comment")

\* main, lines 352-357
CcrCommentDone ==
    /\ prog = "ccr"
    /\ pc = "comment"
    /\ loc.todo = <<>>
    /\ loc' = [loc EXCEPT !.todo = Sorted(loc.pure_orphans)]
    /\ pc' = "pure"
    /\ UNCHANGED <<prog, run, apply, mnemo, objs, shared, fs0, hist, audit, report>>

\* main, lines 359-367
CcrUnlinkPure ==
    /\ prog = "ccr"
    /\ pc = "pure"
    /\ loc.todo # <<>>
    /\ CcrUnlink(Head(loc.todo), "pure")

\* main, lines 369-389
CcrReport ==
    /\ prog = "ccr"
    /\ \/ pc = "report"
       \/ pc = "pure" /\ loc.todo = <<>>
    /\ report' = {[kind |-> "comment_orphan", rel |-> r] : r \in loc.comment_only}
                    \cup {[kind |-> "pure_orphan", rel |-> r] : r \in loc.pure_orphans}
                    \cup {[kind |-> "total_comment", rel |-> Cardinality(loc.comment_only)],
                          [kind |-> "total_pure", rel |-> Cardinality(loc.pure_orphans)]}
    /\ hist' = Append(hist, [orphans |-> loc.comment_only \cup loc.pure_orphans,
                             deleted |-> loc.total_files_deleted,
                             removed |-> loc.total_lines_removed])
    /\ pc' = "done"
    /\ UNCHANGED <<prog, run, apply, mnemo, objs, shared, fs0, loc, audit>>

\* the script is started again on what the run left
Rerun ==
    /\ prog \in {"ccr", "co"}
    /\ pc = "done"
    /\ run < MaxRuns
    /\ run' = run + 1
    /\ pc' = "start"
    /\ loc' = NoLocals
    /\ UNCHANGED <<prog, apply, mnemo, objs, shared, fs0, hist, audit, report>>

CcrNext ==
    \/ CcrScan
    \/ CcrExpand
    \/ CcrClassify
    \/ CcrNextOrphan
    \/ CcrLocation
    \/ CcrUnlinkComment
    \/ CcrCommentDone
    \/ CcrUnlinkPure
    \/ CcrReport

-----------------------------------------------------------------------------
(* cleanup_orphans.main, one cabinet *)

\* main, lines 127-130, and collect_referenced_files, lines 37-61
CoSeed ==
    /\ prog = "co"
    /\ pc = "start"
    /\ loc' = [all_rels |-> DOMAIN objs,
               referenced |-> GrepRefs(mnemo),
               prev_size |-> -1,
               iteration |-> 0,
               orphans |-> <<>>,
               todo |-> <<>>,
               total_deleted |-> 0]
    /\ pc' = "loop"
    /\ UNCHANGED <<prog, run, apply, mnemo, objs, shared, fs0, hist, audit, report>>

\* collect_referenced_files, lines 62-82: one pass of the while loop
CoPass ==
    /\ prog = "co"
    /\ pc = "loop"
    /\ Cardinality(loc.referenced) # loc.prev_size
    /\ loc.iteration + 1 <= CoIterCap
    /\ loc' = [loc EXCEPT !.prev_size = Cardinality(loc.referenced),
                          !.iteration = @ + 1,
                          !.referenced = CoPassRefs(loc.referenced, objs)]
    /\ UNCHANGED <<prog, pc, run, apply, mnemo, objs, shared, fs0, hist, audit, report>>

\* collect_referenced_files, lines 62-66: the break at the iteration cap
CoBreak ==
    /\ prog = "co"
    /\ pc = "loop"
    /\ Cardinality(loc.referenced) # loc.prev_size
    /\ loc.iteration + 1 > CoIterCap
    /\ loc' = [loc EXCEPT !.prev_size = Cardinality(loc.referenced),
                          !.iteration = @ + 1]
    /\ pc' = "returned"
    /\ UNCHANGED <<prog, run, apply, mnemo, objs, shared, fs0, hist, audit, report>>

\* collect_referenced_files, line 62 and 84: the size did not change
CoConverged ==
    /\ prog = "co"
    /\ pc = "loop"
    /\ Cardinality(loc.referenced) = loc.prev_size
    /\ pc' = "returned"
    /\ UNCHANGED <<prog, run, apply, mnemo, objs, shared, fs0, loc, hist, audit, report>>

\* main, lines 135-141
CoOrphans ==
    /\ prog = "co"
    /\ pc = "returned"
    /\ loc' = [loc EXCEPT !.orphans = Sorted(loc.all_rels \ loc.referenced),
                          !.todo = Sorted(loc.all_rels \ loc.referenced)]
    /\ pc' = "delete"
    /\ UNCHANGED <<prog, run, apply, mnemo, objs, shared, fs0, hist, audit, report>>

\* main, lines 145-151: one orphan
CoUnlink ==
    /\ prog = "co"
    /\ pc = "delete"
    /\ loc.todo # <<>>
    /\ LET orph == Head(loc.todo)
       IN  IF apply /\ orph \in DOMAIN objs
           THEN /\ objs' = Unlink(objs, orph)
                /\ audit' = audit \cup
                     {[run |-> run, rel |-> orph, by |-> {}]}
                /\ loc' = [loc EXCEPT !.todo = Tail(loc.todo),
                                      !.total_deleted = @ + 1]
           ELSE /\ loc' = [loc EXCEPT !.todo = Tail(loc.todo)]
                /\ UNCHANGED <<objs, audit>>
    /\ UNCHANGED <<prog, pc, run, apply, mnemo, shared, fs0, hist, report>>

\* main, lines 153-176: the report of the run
CoReport ==
    /\ prog = "co"
    /\ pc = "delete"
    /\ loc.todo = <<>>
    /\ report' = {[kind |-> "orphan", rel |-> r] : r \in Range(loc.orphans)}
                    \cup {[kind |-> "total_orphans", rel |-> Len(loc.orphans)]}
                    \cup {[kind |-> "total_deleted", rel |-> loc.total_deleted] : b \in {apply} \ {FALSE}}
    /\ hist' = Append(hist, [orphans |-> Range(loc.orphans),
                             deleted |-> loc.total_deleted,
                             removed |-> 0])
    /\ pc' = "done"
    /\ UNCHANGED <<prog, run, apply, mnemo, objs, shared, fs0, loc, audit>>

CoNext ==
    \/ CoSeed
    \/ CoPass
    \/ CoBreak
    \/ CoConverged
    \/ CoOrphans
    \/ CoUnlink
    \/ CoReport

-----------------------------------------------------------------------------
(* validate_refs.main *)

\* build_reverse_map: the (reference path, referencing file) pairs
VrBuild ==
    /\ prog = "vr"
    /\ pc = "start"
    /\ loc' = [reverse_map |->
                 UNION {{[tk |-> t.tk, rel |-> t.rel, src |-> f] :
                            t \in PathsIn(strip_comments(TextOf(f, mnemo, objs)))} :
                        f \in Range(ScanOrder(objs))}]
    /\ pc' = "built"
    /\ UNCHANGED <<prog, run, apply, mnemo, objs, shared, fs0, hist, audit, report>>

\* main, lines 115-167
VrReport ==
    /\ prog = "vr"
    /\ pc = "built"
    /\ LET missing == {e \in loc.reverse_map :
                          ~PathExists([tk |-> e.tk, rel |-> e.rel], objs, shared)}
           parents(src) == {e.src : e \in {x \in loc.reverse_map :
                                /\ src.d = "o"
                                /\ x.tk = "full"
                                /\ x.rel = src.n
                                /\ x.src # src}}
       IN  report' =
             {[kind |-> "missing", tk |-> e.tk, rel |-> e.rel,
               src |-> NoFile, parent |-> NoFile] : e \in missing}
             \cup {[kind |-> "source", tk |-> e.tk, rel |-> e.rel,
                    src |-> e.src, parent |-> NoFile] : e \in missing}
             \cup UNION {{[kind |-> "parent", tk |-> e.tk, rel |-> e.rel,
                           src |-> e.src, parent |-> q] : q \in parents(e.src)} :
                         e \in missing}
    /\ pc' = "done"
    /\ UNCHANGED <<prog, run, apply, mnemo, objs, shared, fs0, loc, hist, audit>>

VrNext ==
    \/ VrBuild
    \/ VrReport

-----------------------------------------------------------------------------
(* fix_cross_refs.main, one cabinet *)

\* process_cabinet, lines 27-33
FcrStart ==
    /\ prog = "fcr"
    /\ pc = "start"
    /\ loc' = [iteration |-> 0,
               found_new |-> FALSE,
               files_updated |-> 0,
               refs_replaced |-> 0,
               objects_copied |-> 0,
               missing |-> {},
               seen |-> {},
               report_lines |-> {}]
    /\ pc' = "loop"
    /\ UNCHANGED <<prog, run, apply, mnemo, objs, shared, fs0, hist, audit, report>>

\* process_cabinet, lines 34-107: one pass of the while loop
FcrIterate ==
    /\ prog = "fcr"
    /\ pc = "loop"
    /\ LET xml_files == Sorted(DOMAIN objs)
           matches == AllMatches(xml_files, objs)
           touched == {n \in DOMAIN objs : OldMatches(objs[n]) # <<>>}
           refs == [o \in {m.o : m \in Range(matches)} |->
                        {n \in touched : o \in {m.o : m \in Range(OldMatches(objs[n]))}}]
           rewritten == [n \in DOMAIN objs |-> Prefixed(objs[n])]
           st == CopyLoop(FirstSeen(matches, {}), refs, shared,
                    [objs |-> rewritten, copied_dirs |-> {}, copied |-> 0,
                     missing |-> loc.missing, found_new |-> touched # {}])
           iteration == loc.iteration + 1
           capped == st.found_new /\ iteration > FcrIterCap
       IN  /\ objs' = st.objs
           /\ loc' = [loc EXCEPT
                !.iteration = iteration,
                !.found_new = st.found_new,
                !.files_updated = @ + Cardinality(touched),
                !.refs_replaced = @ + Len(matches),
                !.objects_copied = @ + st.copied,
                !.missing = st.missing,
                !.seen = @ \cup UNION {{[rel |-> o, src |-> n] : n \in refs[o]} :
                                            o \in DOMAIN refs},
                !.report_lines = IF capped
                                 THEN @ \cup {[kind |-> "aborted", rel |-> iteration, src |-> 0]}
                                 ELSE @]
           /\ pc' = IF ~st.found_new \/ capped THEN "returned" ELSE "loop"
    /\ UNCHANGED <<prog, run, apply, mnemo, shared, fs0, hist, audit, report>>

\* main, lines 136-181
FcrReport ==
    /\ prog = "fcr"
    /\ pc = "returned"
    /\ report' = loc.report_lines
            \cup {[kind |-> "missing", rel |-> e.rel, src |-> e.src] : e \in loc.missing}
            \cup {[kind |-> "files_updated", rel |-> loc.files_updated, src |-> 0],
                  [kind |-> "refs_replaced", rel |-> loc.refs_replaced, src |-> 0],
                  [kind |-> "objects_copied", rel |-> loc.objects_copied, src |-> 0]}
    /\ pc' = "done"
    /\ UNCHANGED <<prog, run, apply, mnemo, objs, shared, fs0, loc, hist, audit>>

FcrNext ==
    \/ FcrStart
    \/ FcrIterate
    \/ FcrReport

Next ==
    \/ CcrNext
    \/ CoNext
    \/ VrNext
    \/ FcrNext
    \/ Rerun

Spec == Init /\ [][Next]_vars

-----------------------------------------------------------------------------
(* parse_utils.find_matching_brace and split_ctl.find_block_end *)

\* Offsets are 0-based as in the source: text[i] is the element i + 1 of the
\* sequence.  The six characters &quot; are one element.
At(text, i) == text[i + 1]

IsAt(text, i, c) == i >= 0 /\ i < Len(text) /\ IsCh(At(text, i), c)

\* text[i] == a and i + 1 < length and text[i + 1] == b
TwoAt(text, i, a, b) == IsAt(text, i, a) /\ IsAt(text, i + 1, b)

IsQuotAt(text, i) == i >= 0 /\ i < Len(text) /\ At(text, i) = Ch("&quot;")

\* while i < length and text[i] != '\n': i += 1
RECURSIVE SkipToNewline(_, _)
SkipToNewline(text, i) ==
    IF i < Len(text) /\ ~IsAt(text, i, "nl") THEN SkipToNewline(text, i + 1) ELSE i

\* while i + 1 < length: if text[i:i+2] == '*/': i += 2; break; i += 1
RECURSIVE SkipBlockComment(_, _)
SkipBlockComment(text, i) ==
    IF i + 1 < Len(text)
    THEN IF TwoAt(text, i, "*", "/") THEN i + 2 ELSE SkipBlockComment(text, i + 1)
    ELSE i

\* a matcher that takes \" for two characters of code
SkipEscapedNothing(text, i) == i

\* lines 76-80: up to and over the closing \"
RECURSIVE SkipEscaped(_, _)
SkipEscaped(text, i) ==
    IF i < Len(text)
    THEN IF TwoAt(text, i, "\\", "\"") THEN i + 2 ELSE SkipEscaped(text, i + 1)
    ELSE i

\* lines 86-90: up to and over the closing &quot;
RECURSIVE SkipEntity(_, _)
SkipEntity(text, i) ==
    IF i < Len(text)
    THEN IF IsQuotAt(text, i) THEN i + 1 ELSE SkipEntity(text, i + 1)
    ELSE i

\* the inner loop of a quoted string: the offset of the closing quote q, or
\* the offset the loop runs out at
RECURSIVE SkipQuoted(_, _, _)
SkipQuoted(text, i, q) ==
    IF i < Len(text)
    THEN IF IsAt(text, i, "\\") THEN SkipQuoted(text, i + 2, q)
         ELSE IF IsAt(text, i, q) THEN i
         ELSE SkipQuoted(text, i + 1, q)
    ELSE i

\* the while loop of find_matching_brace from offset i with the given depth
RECURSIVE MatchFrom(_, _, _)
MatchFrom(text, i, depth) ==
    IF i >= Len(text) THEN -1
    ELSE IF TwoAt(text, i, "/", "/") THEN MatchFrom(text, SkipToNewline(text, i), depth)
    ELSE IF TwoAt(text, i, "/", "*") THEN MatchFrom(text, SkipBlockComment(text, i + 2), depth)
    ELSE IF TwoAt(text, i, "\\", "\"") THEN MatchFrom(text, SkipEscaped(text, i + 2), depth)
    ELSE IF IsQuotAt(text, i) THEN MatchFrom(text, SkipEntity(text, i + 1), depth)
    ELSE IF IsAt(text, i, "\"") THEN MatchFrom(text, SkipQuoted(text, i + 1, "\"") + 1, depth)
    ELSE IF IsAt(text, i, "{") THEN MatchFrom(text, i + 1, depth + 1)
    ELSE IF IsAt(text, i, "}")
         THEN IF depth - 1 = 0 THEN i ELSE MatchFrom(text, i + 1, depth - 1)
    ELSE MatchFrom(text, i + 1, depth)

find_matching_brace(text, open_pos) == MatchFrom(text, open_pos, 0)

\* the while loop of find_block_end from offset i with the given depth
RECURSIVE BlockEndFrom(_, _, _)
BlockEndFrom(text, i, depth) ==
    IF i >= Len(text) THEN Len(text) - 1
    ELSE IF IsAt(text, i, "\"") THEN BlockEndFrom(text, SkipQuoted(text, i + 1, "\"") + 1, depth)
    ELSE IF IsAt(text, i, "'") THEN BlockEndFrom(text, SkipQuoted(text, i + 1, "'") + 1, depth)
    ELSE IF TwoAt(text, i, "/", "/") THEN BlockEndFrom(text, SkipToNewline(text, i + 2) + 1, depth)
    ELSE IF TwoAt(text, i, "/", "*") THEN BlockEndFrom(text, SkipBlockComment(text, i + 2), depth)
    ELSE IF IsAt(text, i, "{") THEN BlockEndFrom(text, i + 1, depth + 1)
    ELSE IF IsAt(text, i, "}")
         THEN IF depth - 1 = 0 THEN i ELSE BlockEndFrom(text, i + 1, depth - 1)
    ELSE BlockEndFrom(text, i + 1, depth)

find_block_end(text, start) == BlockEndFrom(text, start, 0)

-----------------------------------------------------------------------------
(* The comment regions of a text, as the language defines them: // opens a *)
(* comment up to the end of the line, /* one up to the next */, and a      *)
(* marker inside a comment opens nothing.                                  *)

\* the region of each element of the line from position i on
RECURSIVE LineRegions(_, _, _)
LineRegions(line, i, st) ==
    IF i > Len(line) THEN <<>>
    ELSE IF st = "code" /\ PairAt(line, i, "/", "/")
         THEN <<"line", "line">> \o LineRegions(line, i + 2, "line")
    ELSE IF st = "code" /\ PairAt(line, i, "/", "*")
         THEN <<"block", "block">> \o LineRegions(line, i + 2, "block")
    ELSE IF st = "block" /\ PairAt(line, i, "*", "/")
         THEN <<"block", "block">> \o LineRegions(line, i + 2, "code")
    ELSE <<st>> \o LineRegions(line, i + 1, st)

\* the region the next line starts in
RECURSIVE LineExit(_, _, _)
LineExit(line, i, st) ==
    IF i > Len(line) THEN (IF st = "block" THEN "block" ELSE "code")
    ELSE IF st = "code" /\ PairAt(line, i, "/", "/") THEN "code"
    ELSE IF st = "code" /\ PairAt(line, i, "/", "*") THEN LineExit(line, i + 2, "block")
    ELSE IF st = "block" /\ PairAt(line, i, "*", "/") THEN LineExit(line, i + 2, "code")
    ELSE LineExit(line, i + 1, st)

RECURSIVE LineEntry(_, _)
LineEntry(text, ln) ==
    IF ln <= 1 THEN "code" ELSE LineExit(text[ln - 1], 1, LineEntry(text, ln - 1))

RegionAt(text, ln, p) == LineRegions(text[ln], 1, LineEntry(text, ln))[p]

\* the paths reachable from the mnemonic file along references of any kind,
\* through the object files that exist
RECURSIVE GrepReachableFrom(_, _)
GrepReachableFrom(S, os) ==
    LET more == S \cup UNION {GrepRefs(os[n]) : n \in S \cap DOMAIN os}
    IN  IF more = S THEN S ELSE GrepReachableFrom(more, os)

\* the objects reachable from the mnemonic file along active references
RECURSIVE ReachableFrom(_, _)
ReachableFrom(S, os) ==
    LET more == S \cup UNION {ActiveRefs(os[n]) : n \in S \cap DOMAIN os}
    IN  IF more = S THEN S ELSE ReachableFrom(more, os)

-----------------------------------------------------------------------------
(* Claims *)

\* find_comment_orphans has just returned and main has changed nothing yet
CcrJustClassified ==
    /\ prog = "ccr"
    /\ \/ pc = "report"
       \/ pc = "comment" /\ Len(loc.todo) = Cardinality(loc.comment_only)

\* C1: an object file is kept by find_comment_orphans exactly when a chain of
\* active references leads to it from the mnemonic files of the cabinet
C1_ActiveIffReachableFromRoots ==
    CcrJustClassified =>
        \A rel \in loc.all_files :
            (rel \notin loc.comment_only \cup loc.pure_orphans)
                <=> (rel \in ReachableFrom(ActiveRefs(mnemo), objs))

\* C5: the second --apply run of clean_commented_refs classifies no orphan,
\* deletes no file and removes no line
C5_CcrApplyIdempotent ==
    (prog = "ccr" /\ apply /\ run = 2 /\ pc \notin {"start", "expand"}) =>
        /\ loc.comment_only = {}
        /\ loc.pure_orphans = {}
        /\ loc.total_files_deleted = 0
        /\ loc.total_lines_removed = 0

\* C7: no file unlinked by an --apply run is the target of an active reference
\* in a surviving file, neither when it is unlinked nor when the run ends
C7_NoLiveTargetDeleted ==
    (prog = "ccr" /\ pc \in {"done", "crashed"}) =>
        \A a \in {x \in audit : x.run = run} :
            /\ a.by \cap Range(ScanOrder(objs)) = {}
            /\ ActiveReferrers(a.rel, mnemo, objs) = {}

\* C8: classify_refs_in_file calls an occurrence active exactly when it lies
\* outside every comment
C8_ActiveIffOutsideComments ==
    (prog = "ccr" /\ pc = "expand") =>
        \A f \in DOMAIN loc.scanned :
            \A oc \in Range(loc.scanned[f]) :
                oc.active <=> (RegionAt(TextOf(f, mnemo, objs), oc.line, oc.pos) = "code")

\* collect_referenced_files has returned and main has deleted nothing yet
CoJustClassified ==
    /\ prog = "co"
    /\ pc = "delete"
    /\ Len(loc.todo) = Len(loc.orphans)

\* C2: cleanup_orphans calls a file of the object folder an orphan exactly when
\* no chain of references leads to it from the mnemonic files, however long the
\* chain, and mode 2 deletes the orphans
C2_OrphanIffUnreachable ==
    /\ CoJustClassified =>
        \A rel \in loc.all_rels :
            (rel \in Range(loc.orphans))
                <=> (rel \notin GrepReachableFrom(GrepRefs(mnemo), objs))
    /\ (prog = "co" /\ pc = "done" /\ apply) =>
        Range(loc.orphans) \cap DOMAIN objs = {}

\* objects a and b reference each other and the mnemonic file references one
CoCycle(a, b) ==
    /\ a # b
    /\ {a, b} \subseteq DOMAIN objs
    /\ b \in GrepRefs(objs[a])
    /\ a \in GrepRefs(objs[b])
    /\ a \in GrepRefs(mnemo)

CcrCycle(a, b) ==
    /\ a # b
    /\ {a, b} \subseteq DOMAIN objs
    /\ b \in ActiveRefs(objs[a])
    /\ a \in ActiveRefs(objs[b])
    /\ a \in ActiveRefs(mnemo)

CycleMembersReached ==
    /\ (prog = "co" /\ pc = "returned") =>
        \A a, b \in DOMAIN objs : CoCycle(a, b) => {a, b} \subseteq loc.referenced
    /\ CcrJustClassified =>
        \A a, b \in DOMAIN objs : CcrCycle(a, b) => {a, b} \subseteq loc.active_global

InClosureLoop == prog \in {"co", "ccr"} /\ pc \in {"start", "loop", "expand"}

\* C3: the closure loops of collect_referenced_files and find_comment_orphans
\* are always left, and both members of a reference cycle a root points into
\* are in the resulting set
C3_CyclicClosure ==
    /\ []CycleMembersReached
    /\ [](InClosureLoop => <>(~InClosureLoop))

C3_Witness ==
    /\ prog = "co"
    /\ pc = "returned"
    /\ \E a, b \in DOMAIN objs : CoCycle(a, b) /\ {a, b} \subseteq loc.referenced

\* C6: the second mode-2 run of cleanup_orphans finds no orphan and deletes
\* nothing
C6_CoDeleteIdempotent ==
    (prog = "co" /\ apply /\ run = 2 /\ pc \in {"delete", "done"}) =>
        /\ loc.orphans = <<>>
        /\ loc.total_deleted = 0

C6_Witness ==
    /\ prog = "co"
    /\ apply
    /\ run = 2
    /\ pc = "done"
    /\ hist[1].deleted > 0
    /\ loc.orphans = <<>>

\* the reference elements of a file that lie outside every comment
CodeRefs(text) ==
    {[tk |-> text[ln][p].k, rel |-> text[ln][p].o] :
        <<ln, p>> \in {q \in (1..Len(text)) \X (1..5) :
                        /\ q[2] <= Len(text[q[1]])
                        /\ text[q[1]][q[2]].k # "ch"
                        /\ RegionAt(text, q[1], q[2]) = "code"}}

\* the places of the references to y in a text
PlacesOf(text, y) ==
    {q \in (1..Len(text)) \X (1..5) :
        /\ q[2] <= Len(text[q[1]])
        /\ text[q[1]][q[2]] = Full(y)}

\* the scenario, in the files as the run found them: the mnemonic file holds a
\* reference to x in code, x holds one reference, to y and inside a //
\* comment, and no other file names y
Scenario(x, y) ==
    /\ x # y
    /\ {x, y} \subseteq DOMAIN fs0.objs
    /\ [tk |-> "full", rel |-> x] \in CodeRefs(fs0.mnemo)
    /\ Cardinality(PlacesOf(fs0.objs[x], y)) = 1
    /\ {e.o : e \in {r \in Range(Flat(fs0.objs[x])) : r.k # "ch"}} = {y}
    /\ \A q \in PlacesOf(fs0.objs[x], y) : RegionAt(fs0.objs[x], q[1], q[2]) = "line"
    /\ PlacesOf(fs0.mnemo, y) = {}
    /\ \A n \in DOMAIN fs0.objs \ {x} : PlacesOf(fs0.objs[n], y) = {}

C10_MissingReported ==
    (prog = "vr" /\ pc = "done") =>
        /\ \A f \in Range(ScanOrder(objs)) :
             \A t \in CodeRefs(TextOf(f, mnemo, objs)) :
                ~PathExists(t, objs, shared) =>
                    /\ [kind |-> "missing", tk |-> t.tk, rel |-> t.rel,
                        src |-> NoFile, parent |-> NoFile] \in report
                    /\ [kind |-> "source", tk |-> t.tk, rel |-> t.rel,
                        src |-> f, parent |-> NoFile] \in report
        /\ \A l \in report :
             l.kind = "missing" => ~PathExists([tk |-> l.tk, rel |-> l.rel], objs, shared)

\* the report holds a line that says the loop was cut
AbortReported == \E l \in report : l.kind = "aborted"

\* C4: a closure loop that stops at its iteration cap, not at a fixpoint,
\* leaves a did-not-converge line in the report of the run
C4_CapStopIsReported ==
    /\ (prog = "co" /\ pc = "done" /\ loc.iteration > CoIterCap) => AbortReported
    /\ (prog = "fcr" /\ pc = "done" /\ loc.found_new /\ loc.iteration > FcrIterCap)
            => AbortReported

\* the loop of process_cabinet is cut at the cap, and the report says so
FcrCapReached ==
    prog = "fcr" /\ pc = "done" /\ loc.found_new /\ loc.iteration > FcrIterCap
        /\ AbortReported

\* the closure loops alone, on the small graphs and on the long chains
ClosureInit ==
    /\ prog \in {"ccr", "co"}
    /\ pc = "start"
    /\ run = 1
    /\ apply = FALSE
    /\ \E fs \in NoShared(GraphInputs \cup (IF prog = "co" THEN ChainInputs ELSE {})) :
        /\ mnemo = fs.mnemo
        /\ objs = fs.objs
        /\ shared = fs.shared
        /\ fs0 = fs
    /\ loc = NoLocals
    /\ hist = <<>>
    /\ audit = {}
    /\ report = {}

ClosureNext ==
    \/ CcrScan
    \/ CcrExpand
    \/ CcrClassify
    \/ CoSeed
    \/ CoPass
    \/ CoBreak
    \/ CoConverged

\* a started script keeps running: every step that can be taken is taken
ClosureSpec == ClosureInit /\ [][ClosureNext]_vars /\ WF_vars(ClosureNext)

-----------------------------------------------------------------------------
(* validate_refs.strip_comments on lines that hold string literals *)

\* the six characters &quot; as one element
Qt == Ch("&quot;")

StripAlphabet == {Sl, St, Ch("\""), Ch("\\"), Qt, Full(3)}

StripLines == UNION {[1..n -> StripAlphabet] : n \in 0..MaxStripLen}

\* strip_comments is handed one line of text
StripInit ==
    /\ prog = "sc"
    /\ pc = "start"
    /\ run = 1
    /\ apply = FALSE
    /\ \E line \in StripLines :
        /\ mnemo = <<line>>
        /\ fs0 = [mnemo |-> <<line>>, objs |-> <<>>, shared |-> <<>>]
    /\ objs = <<>>
    /\ shared = <<>>
    /\ loc = NoLocals
    /\ hist = <<>>
    /\ audit = {}
    /\ report = {}

\* clean_text = strip_comments(text)
ScStrip ==
    /\ prog = "sc"
    /\ pc = "start"
    /\ loc' = [clean_text |-> strip_comments(mnemo)]
    /\ pc' = "done"
    /\ UNCHANGED <<prog, run, apply, mnemo, objs, shared, fs0, hist, audit, report>>

StripSpec == StripInit /\ [][ScStrip]_vars

\* the region of each element of a text from position i on, string literals
\* of the three dialects told apart: "code", "line", "block", "plain", "esc",
\* "ent"
RECURSIVE QuoteRegions(_, _, _)
QuoteRegions(flat, i, st) ==
    IF i > Len(flat) THEN <<>>
    ELSE IF st = "code" THEN
        IF PairAt(flat, i, "/", "/")
            THEN <<"line", "line">> \o QuoteRegions(flat, i + 2, "line")
        ELSE IF PairAt(flat, i, "/", "*")
            THEN <<"block", "block">> \o QuoteRegions(flat, i + 2, "block")
        ELSE IF PairAt(flat, i, "\\", "\"")
            THEN <<"esc", "esc">> \o QuoteRegions(flat, i + 2, "esc")
        ELSE IF flat[i] = Qt THEN <<"ent">> \o QuoteRegions(flat, i + 1, "ent")
        ELSE IF IsCh(flat[i], "\"") THEN <<"plain">> \o QuoteRegions(flat, i + 1, "plain")
        ELSE <<"code">> \o QuoteRegions(flat, i + 1, "code")
    ELSE IF st = "line" THEN
        <<"line">> \o QuoteRegions(flat, i + 1, IF flat[i] = NL THEN "code" ELSE "line")
    ELSE IF st = "block" THEN
        IF PairAt(flat, i, "*", "/")
            THEN <<"block", "block">> \o QuoteRegions(flat, i + 2, "code")
        ELSE <<"block">> \o QuoteRegions(flat, i + 1, "block")
    ELSE IF st = "esc" THEN
        IF PairAt(flat, i, "\\", "\"")
            THEN <<"esc", "esc">> \o QuoteRegions(flat, i + 2, "code")
        ELSE <<"esc">> \o QuoteRegions(flat, i + 1, "esc")
    ELSE IF st = "ent" THEN
        <<"ent">> \o QuoteRegions(flat, i + 1, IF flat[i] = Qt THEN "code" ELSE "ent")
    ELSE IF IsCh(flat[i], "\\") /\ i + 1 <= Len(flat)
        THEN <<"plain", "plain">> \o QuoteRegions(flat, i + 2, "plain")
    ELSE <<"plain">> \o QuoteRegions(flat, i + 1, IF IsCh(flat[i], "\"") THEN "code" ELSE "plain")

\* the references of a text, in order
RefsOf(flat) == SelectSeq(flat, LAMBDA e : e.k # "ch")

\* the references of a text that lie in no comment, in order
RECURSIVE RefsOutsideComments(_, _, _)
RefsOutsideComments(flat, regions, i) ==
    IF i > Len(flat) THEN <<>>
    ELSE (IF flat[i].k # "ch" /\ regions[i] \notin {"line", "block"}
          THEN <<flat[i]>> ELSE <<>>)
            \o RefsOutsideComments(flat, regions, i + 1)

\* C11: strip_comments keeps exactly the references that lie outside every
\* comment, a // or /* inside a string literal of any dialect opening none
C11_StripKeepsCodeRefs ==
    (prog = "sc" /\ pc = "done") =>
        RefsOf(Flat(loc.clean_text))
            = RefsOutsideComments(mnemo[1], QuoteRegions(mnemo[1], 1, "code"), 1)

-----------------------------------------------------------------------------
(* The brace matchers on their own *)

\* one character each, and the two characters \" as one piece
BracePieces ==
    {<<Ch("{")>>, <<Ch("}")>>, <<Sl>>, <<St>>, <<Ch("\\")>>, <<Ch("\"")>>,
     <<Ch("&quot;")>>, <<NL>>, <<Ch("\\"), Ch("\"")>>}

BraceTexts == {Flat(ps) : ps \in UNION {[1..n -> BracePieces] : n \in 0..MaxPieces}}

\* a text and the offset the match starts at
BraceInit ==
    /\ prog \in {"fmb", "fbe"}
    /\ pc = "start"
    /\ run = 1
    /\ apply = FALSE
    /\ mnemo = <<>>
    /\ objs = <<>>
    /\ shared = <<>>
    /\ \E t \in BraceTexts, p \in 0..1 :
        /\ loc = [text |-> t, open_pos |-> p]
        /\ fs0 = [mnemo |-> <<t>>, objs |-> <<>>, shared |-> <<>>]
    /\ hist = <<>>
    /\ audit = {}
    /\ report = {}

\* brace_end = find_matching_brace(text, j)
FmbCall ==
    /\ prog = "fmb"
    /\ pc = "start"
    /\ loc' = [text |-> loc.text, open_pos |-> loc.open_pos,
               result |-> find_matching_brace(loc.text, loc.open_pos)]
    /\ pc' = "done"
    /\ UNCHANGED <<prog, run, apply, mnemo, objs, shared, fs0, hist, audit, report>>

\* body_end = find_block_end(text, brace_start)
FbeCall ==
    /\ prog = "fbe"
    /\ pc = "start"
    /\ loc' = [text |-> loc.text, open_pos |-> loc.open_pos,
               result |-> find_block_end(loc.text, loc.open_pos)]
    /\ pc' = "done"
    /\ UNCHANGED <<prog, run, apply, mnemo, objs, shared, fs0, hist, audit, report>>

BraceNext ==
    \/ FmbCall
    \/ FbeCall

BraceSpec == BraceInit /\ [][BraceNext]_vars

\* the text with element e put in before offset q
InsertAt(text, q, e) == SubSeq(text, 1, q) \o <<e>> \o SubSeq(text, q + 1, Len(text))

\* the offsets, from offset i on, before which an inserted character lies
\* inside a string literal that is closed, with the dialect of the literal; an
\* escape pair and a closing \" are not split.  st is "code" or a dialect,
\* pending the offsets of the literal that is open
RECURSIVE StringOffsets(_, _, _, _)
StringOffsets(text, i, st, pending) ==
    IF i >= Len(text) THEN {}
    ELSE IF st = "code" THEN
        IF TwoAt(text, i, "/", "/")
            THEN StringOffsets(text, SkipToNewline(text, i), "code", {})
        ELSE IF TwoAt(text, i, "/", "*")
            THEN StringOffsets(text, SkipBlockComment(text, i + 2), "code", {})
        ELSE IF TwoAt(text, i, "\\", "\"") THEN StringOffsets(text, i + 2, "esc", {})
        ELSE IF IsQuotAt(text, i) THEN StringOffsets(text, i + 1, "ent", {})
        ELSE IF IsAt(text, i, "\"") THEN StringOffsets(text, i + 1, "plain", {})
        ELSE StringOffsets(text, i + 1, "code", {})
    ELSE LET here == pending \cup {[q |-> i, dialect |-> st]}
         IN  IF st = "esc" THEN
                IF TwoAt(text, i, "\\", "\"")
                    THEN here \cup StringOffsets(text, i + 2, "code", {})
                    ELSE StringOffsets(text, i + 1, "esc", here)
             ELSE IF st = "ent" THEN
                IF IsQuotAt(text, i)
                    THEN here \cup StringOffsets(text, i + 1, "code", {})
                    ELSE StringOffsets(text, i + 1, "ent", here)
             ELSE IF IsAt(text, i, "\\") THEN StringOffsets(text, i + 2, "plain", here)
             ELSE IF IsAt(text, i, "\"")
                    THEN here \cup StringOffsets(text, i + 1, "code", {})
             ELSE StringOffsets(text, i + 1, "plain", here)

\* an offset of the text after one element was put in before offset q
ShiftedBy(r, q) == IF r >= q THEN r + 1 ELSE r

\* C12: a { or } put inside a closed string literal of any of the three
\* dialects leaves the brace find_matching_brace reports the same
C12_BraceInStringIgnored ==
    (prog = "fmb" /\ pc = "done") =>
        \A pt \in StringOffsets(loc.text, loc.open_pos, "code", {}) :
            \A b \in {"{", "}"} :
                find_matching_brace(InsertAt(loc.text, pt.q, Ch(b)), loc.open_pos)
                    = ShiftedBy(loc.result, pt.q)

\* a block whose closing brace is found behind a \"...\" literal
C12_Witness ==
    /\ prog = "fmb"
    /\ pc = "done"
    /\ \E pt \in StringOffsets(loc.text, loc.open_pos, "code", {}) :
        /\ pt.dialect = "esc"
        /\ loc.result > pt.q
        /\ IsAt(loc.text, loc.open_pos, "{")

\* what each matcher returns for "no matching brace"
Unmatched(p, text) == IF p = "fmb" THEN -1 ELSE Len(text) - 1

\* the offset at which the depth counted from offset i returns to 0 before
\* offset stop, -1 when it does not; the text in between is plain code
RECURSIVE PlainMatch(_, _, _, _)
PlainMatch(text, i, stop, depth) ==
    IF i >= stop THEN -1
    ELSE IF IsAt(text, i, "{") THEN PlainMatch(text, i + 1, stop, depth + 1)
    ELSE IF IsAt(text, i, "}")
         THEN IF depth - 1 = 0 THEN i ELSE PlainMatch(text, i + 1, stop, depth - 1)
    ELSE PlainMatch(text, i + 1, stop, depth)

\* offset c holds a /* that is read as a comment opener in a scan from offset
\* p and has no */ after it: before c there is no quote and no comment
UnclosedBlockAt(text, p, c) ==
    /\ c >= p
    /\ TwoAt(text, c, "/", "*")
    /\ \A j \in (c + 2)..(Len(text) - 1) : ~TwoAt(text, j, "*", "/")
    /\ \A j \in p..(c - 1) :
        /\ ~IsAt(text, j, "\"") /\ ~IsAt(text, j, "\\") /\ ~IsQuotAt(text, j)
        /\ ~TwoAt(text, j, "/", "/") /\ ~TwoAt(text, j, "/", "*")

\* C13: behind a /* that is never closed nothing counts: the matchers report
\* the brace that closes the block before the comment, and no match otherwise
C13_UnclosedBlockComment ==
    (prog \in {"fmb", "fbe"} /\ pc = "done" /\ IsAt(loc.text, loc.open_pos, "{")) =>
        \A c \in 0..(Len(loc.text) - 1) :
            UnclosedBlockAt(loc.text, loc.open_pos, c) =>
                LET r == PlainMatch(loc.text, loc.open_pos, c, 0)
                IN  loc.result = IF r >= 0 THEN r ELSE Unmatched(prog, loc.text)

\* from offset p on the text holds no quote and no comment
PlainFrom(text, p) ==
    \A j \in p..(Len(text) - 1) :
        /\ ~IsAt(text, j, "\"") /\ ~IsAt(text, j, "\\") /\ ~IsQuotAt(text, j)
        /\ ~TwoAt(text, j, "/", "/") /\ ~TwoAt(text, j, "/", "*")

\* C14: for an opening brace that nothing closes before the end of the text
\* the matchers return a value that is not the offset of a closing brace
C14_UnmatchedDistinguished ==
    (/\ prog \in {"fmb", "fbe"}
     /\ pc = "done"
     /\ IsAt(loc.text, loc.open_pos, "{")
     /\ PlainFrom(loc.text, loc.open_pos)
     /\ PlainMatch(loc.text, loc.open_pos, Len(loc.text), 0) = -1)
        => ~IsAt(loc.text, loc.result, "}")

-----------------------------------------------------------------------------
(* clean_commented_refs: the dry run against the --apply run *)

\* the set the while loop of find_comment_orphans ends with
RECURSIVE ActiveClosure(_, _)
ActiveClosure(S, os) ==
    LET more == ExpandPass(S, os)
    IN  IF more = S THEN S ELSE ActiveClosure(more, os)

\* the files a run on the given files lists as comment-orphans or pure orphans
ListedOrphans(fs) ==
    DOMAIN fs.objs \ ActiveClosure(ScanActive(fs.mnemo, fs.objs), fs.objs)

\* the orphans the report of the run lists
ReportedOrphans == {l.rel : l \in {x \in report : x.kind \in {"comment_orphan", "pure_orphan"}}}

\* the files this run has unlinked
UnlinkedNow == {a.rel : a \in {x \in audit : x.run = run}}

\* C15: a run without --apply leaves every file as it was and lists the
\* orphans; a run with --apply on the same files deletes exactly the files
\* the run without it lists
C15_DryRunReportsWhatApplyDeletes ==
    (prog = "ccr" /\ run = 1) =>
        /\ ~apply => (mnemo = fs0.mnemo /\ objs = fs0.objs)
        /\ (~apply /\ pc = "done") => ReportedOrphans = ListedOrphans(fs0)
        /\ (apply /\ pc \in {"done", "crashed"}) => UnlinkedNow = ListedOrphans(fs0)

\* the same, for the runs that reach their end
C15_HoldsWithoutAbort ==
    (prog = "ccr" /\ run = 1) =>
        /\ ~apply => (mnemo = fs0.mnemo /\ objs = fs0.objs)
        /\ (~apply /\ pc = "done") => ReportedOrphans = ListedOrphans(fs0)
        /\ (apply /\ pc = "done") => UnlinkedNow = ListedOrphans(fs0)

-----------------------------------------------------------------------------
(* cleanup_orphans.collect_referenced_files, file by file, in the order in
   which list(referenced) hands the files out *)

OrderNodes == 3
MaxFreeOrder == 4

\* the files of a cabinet with up to two references each, to the objects and
\* to one file that does not exist
OrderTexts ==
    {<<>>, <<<<Alien(2)>>>>, <<LRef(1), LOld(2)>>}
        \cup {<<LRef(t)>> : t \in 1..(OrderNodes + 1)}

OrderInputs ==
    {[mnemo |-> m, objs |-> os, shared |-> <<>>] :
        m \in {<<>>, <<LRef(1)>>, <<LRef(1), LRef(2)>>, <<LRef(2), LOld(3)>>},
        os \in [1..OrderNodes -> OrderTexts]}

OrderInit ==
    /\ prog = "crf"
    /\ pc = "start"
    /\ run = 1
    /\ apply = FALSE
    /\ \E fs \in OrderInputs \cup NoShared(ChainInputs) :
        /\ mnemo = fs.mnemo
        /\ objs = fs.objs
        /\ shared = fs.shared
        /\ fs0 = fs
    /\ loc = NoLocals
    /\ hist = <<>>
    /\ audit = {}
    /\ report = {}

\* the orders in which a set may be handed out: every order for a small set,
\* ascending and descending for a large one
OrdersOf(S) ==
    IF Cardinality(S) <= MaxFreeOrder THEN {"any", "asc", "desc"} ELSE {"asc", "desc"}

\* the files that may come next in the order
NextIn(rest, order) ==
    CASE order = "asc" -> {x \in rest : \A y \in rest : x <= y}
      [] order = "desc" -> {x \in rest : \A y \in rest : y <= x}
      [] OTHER -> rest

\* a loop that goes over the growing set itself: a file found on the way that
\* comes later in the order is visited in the same pass
RestOfLiveSet(rest, obj_rel, referenced, found) ==
    (rest \ {obj_rel}) \cup {n \in found \ referenced : n > obj_rel}

\* line 68: the loop goes over list(referenced), made before the first file is
\* read; what is found on the way is not in it
RestOfList(rest, obj_rel, referenced, found) == rest \ {obj_rel}

\* lines 69-82: the references of one file
FoundIn(obj_rel, os) ==
    IF obj_rel \in DOMAIN os THEN GrepRefs(os[obj_rel]) ELSE {}

\* lines 37-63
CrfSeed ==
    /\ prog = "crf"
    /\ pc = "start"
    /\ loc' = [referenced |-> GrepRefs(mnemo),
               prev_size |-> -1,
               iteration |-> 0,
               rest |-> {},
               order |-> "asc"]
    /\ pc' = "loop"
    /\ UNCHANGED <<prog, run, apply, mnemo, objs, shared, fs0, hist, audit, report>>

\* lines 64-68: a pass begins, list(referenced) is made
CrfPassStart ==
    /\ prog = "crf"
    /\ pc = "loop"
    /\ Cardinality(loc.referenced) # loc.prev_size
    /\ loc.iteration + 1 <= CoIterCap
    /\ \E o \in OrdersOf(loc.referenced) :
        loc' = [loc EXCEPT !.prev_size = Cardinality(loc.referenced),
                           !.iteration = @ + 1,
                           !.rest = loc.referenced,
                           !.order = o]
    /\ pc' = "visit"
    /\ UNCHANGED <<prog, run, apply, mnemo, objs, shared, fs0, hist, audit, report>>

\* lines 68-82: the next file of the list
CrfVisit ==
    /\ prog = "crf"
    /\ pc = "visit"
    /\ \E obj_rel \in NextIn(loc.rest, loc.order) :
        LET found == FoundIn(obj_rel, objs)
        IN  loc' = [loc EXCEPT !.referenced = @ \cup found,
                               !.rest = RestOfList(loc.rest, obj_rel, loc.referenced, found)]
    /\ UNCHANGED <<prog, pc, run, apply, mnemo, objs, shared, fs0, hist, audit, report>>

\* line 68: the list is used up
CrfPassEnd ==
    /\ prog = "crf"
    /\ pc = "visit"
    /\ loc.rest = {}
    /\ pc' = "loop"
    /\ UNCHANGED <<prog, run, apply, mnemo, objs, shared, fs0, loc, hist, audit, report>>

\* lines 62-66: the break at the iteration cap
CrfBreak ==
    /\ prog = "crf"
    /\ pc = "loop"
    /\ Cardinality(loc.referenced) # loc.prev_size
    /\ loc.iteration + 1 > CoIterCap
    /\ loc' = [loc EXCEPT !.prev_size = Cardinality(loc.referenced),
                          !.iteration = @ + 1]
    /\ pc' = "returned"
    /\ UNCHANGED <<prog, run, apply, mnemo, objs, shared, fs0, hist, audit, report>>

\* lines 62 and 84: the size did not change
CrfConverged ==
    /\ prog = "crf"
    /\ pc = "loop"
    /\ Cardinality(loc.referenced) = loc.prev_size
    /\ pc' = "returned"
    /\ UNCHANGED <<prog, run, apply, mnemo, objs, shared, fs0, loc, hist, audit, report>>

OrderNext ==
    \/ CrfSeed
    \/ CrfPassStart
    \/ CrfVisit
    \/ CrfPassEnd
    \/ CrfBreak
    \/ CrfConverged

OrderSpec == OrderInit /\ [][OrderNext]_vars

\* the set the loop ends with when every pass is taken as a whole
RECURSIVE ReferencedByPasses(_, _, _, _)
ReferencedByPasses(S, os, prev_size, iteration) ==
    IF Cardinality(S) = prev_size \/ iteration + 1 > CoIterCap
    THEN S
    ELSE ReferencedByPasses(CoPassRefs(S, os), os, Cardinality(S), iteration + 1)

\* C16: collect_referenced_files returns the same set of referenced files in
\* whatever order list(referenced) hands the files out in each pass, also when
\* the loop is cut by the cap of 50 passes
C16_OrderIndependent ==
    (prog = "crf" /\ pc = "returned") =>
        loc.referenced = ReferencedByPasses(GrepRefs(fs0.mnemo), fs0.objs, -1, 0)

\* a run cut by the cap whose last pass went through the files in descending
\* order
C16_Witness ==
    /\ prog = "crf"
    /\ pc = "returned"
    /\ loc.iteration > CoIterCap
    /\ loc.order = "desc"

\* a run to the end whose third pass took three or more files in an order of
\* its own
C16_FreeOrderRun ==
    /\ prog = "crf"
    /\ pc = "returned"
    /\ loc.order = "any"
    /\ Cardinality(loc.referenced) >= 3
    /\ loc.iteration >= 3

-----------------------------------------------------------------------------
(* run_pipeline *)

MaxStepArg == 12

\* STEPS, lines 36-48: number, script and the arguments after the script
STEPS ==
    <<[num |-> 1,  script |-> "process_mnemo.py",        args |-> <<>>],
      [num |-> 2,  script |-> "fix_cross_refs.py",       args |-> <<>>],
      [num |-> 3,  script |-> "cleanup_orphans.py",      args |-> <<"2">>],
      [num |-> 4,  script |-> "clean_commented_refs.py", args |-> <<"--apply">>],
      [num |-> 5,  script |-> "validate_refs.py",        args |-> <<>>],
      [num |-> 6,  script |-> "split_ctl.py",            args |-> <<>>],
      [num |-> 7,  script |-> "replace_scripts.py",      args |-> <<>>],
      [num |-> 8,  script |-> "scan_problems.py",        args |-> <<>>],
      [num |-> 9,  script |-> "check_other_scripts.py",  args |-> <<>>],
      [num |-> 10, script |-> "cleanup_classes.py",      args |-> <<>>],
      [num |-> 11, script |-> "collect_output.py",       args |-> <<"--clean">>]>>

\* run_step, line 56
APPEND_STEPS == {1, 2, 3, 4, 5, 7, 8, 9, 10}

\* the scripts that lie in the directory of run_pipeline.py in this source
\* tree; the others lie in its subdirectory isolation
InScriptsDir ==
    {"fix_cross_refs.py", "cleanup_orphans.py", "validate_refs.py", "split_ctl.py",
     "scan_problems.py", "check_other_scripts.py"}

\* the options the parser of a script knows; only clean_commented_refs has a
\* parser (argparse, lines 264-275), the other scripts look for single words
\* in sys.argv and pass over the rest
KnownOptions(script) ==
    IF script = "clean_commented_refs.py" THEN {"--apply", "-h", "--help"} ELSE {}

HasParser(script) == script = "clean_commented_refs.py"

\* parser.parse_args(): an option the parser does not know ends the script
\* with exit code 2
Rejects(script, arg) ==
    /\ HasParser(script)
    /\ arg \in {"--append", "--apply", "--clean", "-h", "--help"}
    /\ arg \notin KnownOptions(script)

\* run_step, lines 58-60
FullCmd(step, append) ==
    IF append /\ step.num \in APPEND_STEPS
    THEN Append(step.args, "--append")
    ELSE step.args

\* the exit codes subprocess.run can return for a step: 2 when python does
\* not find the script in SCRIPTS_DIR or the script's parser rejects an
\* argument, else what the step's own work gives (0 or 1)
ExitCodes(step, full_args, layout) ==
    IF layout = "tree" /\ step.script \notin InScriptsDir THEN {[rc |-> 2, why |-> "not_found"]}
    ELSE IF \E i \in DOMAIN full_args : Rejects(step.script, full_args[i])
         THEN {[rc |-> 2, why |-> "usage"]}
         ELSE {[rc |-> 0, why |-> "work"], [rc |-> 1, why |-> "work"]}

\* a flag with an integer value, given or left out
FlagValues ==
    {[given |-> FALSE, n |-> 0]} \cup {[given |-> TRUE, n |-> k] : k \in (0 - 1)..MaxStepArg}

\* the command line, and where the step scripts lie: as in this source tree,
\* or all in the directory of run_pipeline.py
PipelineInit ==
    /\ prog = "rp"
    /\ pc = "start"
    /\ run = 1
    /\ apply = FALSE
    /\ mnemo = <<>>
    /\ objs = <<>>
    /\ shared = <<>>
    /\ fs0 = [mnemo |-> <<>>, objs |-> <<>>, shared |-> <<>>]
    /\ \E a \in BOOLEAN, f \in FlagValues, o \in FlagValues, l \in {"tree", "flat"} :
        loc = [argv |-> [append |-> a, from_step |-> f, only |-> o], layout |-> l]
    /\ hist = <<>>
    /\ audit = {}
    /\ report = {}

\* main, lines 87-113: parse_args with the defaults 1 and 0, the counters
RpParse ==
    /\ prog = "rp"
    /\ pc = "start"
    /\ loc' = [argv |-> loc.argv,
               layout |-> loc.layout,
               append |-> loc.argv.append,
               from_step |-> IF loc.argv.from_step.given THEN loc.argv.from_step.n ELSE 1,
               only |-> IF loc.argv.only.given THEN loc.argv.only.n ELSE 0,
               i |-> 1,
               passed |-> 0,
               failed |-> 0,
               skipped |-> 0,
               launched |-> <<>>,
               status |-> -1]
    /\ pc' = "loop"
    /\ UNCHANGED <<prog, run, apply, mnemo, objs, shared, fs0, hist, audit, report>>

\* main, lines 115-118: --only passes over the other steps
RpOnlyContinue ==
    /\ prog = "rp"
    /\ pc = "loop"
    /\ loc.i <= Len(STEPS)
    /\ loc.only # 0 /\ loc.only # STEPS[loc.i].num
    /\ loc' = [loc EXCEPT !.i = @ + 1]
    /\ UNCHANGED <<prog, pc, run, apply, mnemo, objs, shared, fs0, hist, audit, report>>

\* main, lines 120-124: --from skips the steps before it
RpFromSkip ==
    /\ prog = "rp"
    /\ pc = "loop"
    /\ loc.i <= Len(STEPS)
    /\ ~(loc.only # 0 /\ loc.only # STEPS[loc.i].num)
    /\ loc.only = 0 /\ STEPS[loc.i].num < loc.from_step
    /\ loc' = [loc EXCEPT !.i = @ + 1, !.skipped = @ + 1]
    /\ UNCHANGED <<prog, pc, run, apply, mnemo, objs, shared, fs0, hist, audit, report>>

\* main, lines 126-140, and run_step: the step is launched
RpRunStep ==
    /\ prog = "rp"
    /\ pc = "loop"
    /\ loc.i <= Len(STEPS)
    /\ ~(loc.only # 0 /\ loc.only # STEPS[loc.i].num)
    /\ ~(loc.only = 0 /\ STEPS[loc.i].num < loc.from_step)
    /\ LET step == STEPS[loc.i]
           full_cmd == FullCmd(step, loc.append)
       IN  \E result \in ExitCodes(step, full_cmd, loc.layout) :
            LET entry == [num |-> step.num, args |-> full_cmd,
                          rc |-> result.rc, why |-> result.why]
            IN  IF result.rc = 0
                THEN /\ loc' = [loc EXCEPT !.passed = @ + 1,
                                           !.i = @ + 1,
                                           !.launched = Append(@, entry)]
                     /\ pc' = pc
                ELSE /\ loc' = [loc EXCEPT !.failed = @ + 1,
                                           !.launched = Append(@, entry)]
                     /\ pc' = "summary"
    /\ UNCHANGED <<prog, run, apply, mnemo, objs, shared, fs0, hist, audit, report>>

\* main, line 115: STEPS is used up
RpLoopEnd ==
    /\ prog = "rp"
    /\ pc = "loop"
    /\ loc.i > Len(STEPS)
    /\ pc' = "summary"
    /\ UNCHANGED <<prog, run, apply, mnemo, objs, shared, fs0, loc, hist, audit, report>>

\* main, lines 142-152: the summary and sys.exit
RpExit ==
    /\ prog = "rp"
    /\ pc = "summary"
    /\ loc' = [loc EXCEPT !.status = IF loc.failed # 0 THEN 1 ELSE 0]
    /\ report' = {[kind |-> "passed", rel |-> loc.passed],
                  [kind |-> "failed", rel |-> loc.failed],
                  [kind |-> "skipped", rel |-> loc.skipped]}
    /\ pc' = "exited"
    /\ UNCHANGED <<prog, run, apply, mnemo, objs, shared, fs0, hist, audit>>

PipelineNext ==
    \/ RpParse
    \/ RpOnlyContinue
    \/ RpFromSkip
    \/ RpRunStep
    \/ RpLoopEnd
    \/ RpExit

PipelineSpec == PipelineInit /\ [][PipelineNext]_vars

\* the numbers of the launched steps, in the order of their launch
RECURSIVE NumsOf(_)
NumsOf(launched) ==
    IF launched = <<>> THEN <<>> ELSE <<Head(launched).num>> \o NumsOf(Tail(launched))

StepNums == {STEPS[i].num : i \in DOMAIN STEPS}

\* the launches follow the step numbers, and a failed launch is the last one
LaunchOrder ==
    /\ \A i, j \in DOMAIN loc.launched :
        i < j => loc.launched[i].num < loc.launched[j].num
    /\ \A i \in DOMAIN loc.launched :
        loc.launched[i].rc # 0 => i = Len(loc.launched)

\* the exit status tells whether a launched step failed
ExitStatus ==
    pc = "exited" =>
        /\ loc.status \in {0, 1}
        /\ loc.status = 1 <=> \E i \in DOMAIN loc.launched : loc.launched[i].rc # 0

\* with the candidates C: only candidates are launched, and a run in which
\* no launch failed has launched them all
LaunchesOf(C) ==
    /\ Range(NumsOf(loc.launched)) \subseteq C
    /\ (pc = "exited" /\ loc.status = 0) => Range(NumsOf(loc.launched)) = C

\* C17: steps are launched in ascending step number, no step is launched
\* after one that returned a non-zero exit code, the runner exits with 1
\* exactly when a launched step failed; with --from N the steps numbered N
\* or more are the candidates, with --only N step N is
C17_PipelineOrderAndFlags ==
    (prog = "rp" /\ pc # "start") =>
        /\ LaunchOrder
        /\ ExitStatus
        /\ loc.argv.from_step.given =>
              LaunchesOf({n \in StepNums : n >= loc.argv.from_step.n})
        /\ loc.argv.only.given =>
              LaunchesOf({n \in StepNums : n = loc.argv.only.n})

\* the same with each flag taken alone and N not 0 for --only
C17_HoldsForFlagsAlone ==
    (prog = "rp" /\ pc # "start") =>
        /\ LaunchOrder
        /\ ExitStatus
        /\ (loc.argv.from_step.given /\ ~loc.argv.only.given) =>
              LaunchesOf({n \in StepNums : n >= loc.argv.from_step.n})
        /\ (loc.argv.only.given /\ loc.argv.only.n # 0) =>
              LaunchesOf({n \in StepNums : n = loc.argv.only.n})
        /\ (~loc.argv.from_step.given /\ ~loc.argv.only.given) =>
              LaunchesOf(StepNums)

\* --only 0 and nothing else on the command line: only step 0 may be launched
C17_OnlyZero ==
    (prog = "rp" /\ pc # "start" /\ loc.argv.only.given /\ loc.argv.only.n = 0
        /\ ~loc.argv.from_step.given) =>
        loc.launched = <<>>

\* the steps a full run launches when the work of every step succeeds
RECURSIVE LaunchedIfWorkSucceeds(_, _, _)
LaunchedIfWorkSucceeds(i, append, layout) ==
    IF i > Len(STEPS) THEN {}
    ELSE IF 0 \in {c.rc : c \in ExitCodes(STEPS[i], FullCmd(STEPS[i], append), layout)}
         THEN {STEPS[i].num} \cup LaunchedIfWorkSucceeds(i + 1, append, layout)
         ELSE {STEPS[i].num}

\* C18: with --append, no step that is handed --append ends for not knowing
\* the argument, and a full run in which the work of every launched step
\* succeeded has launched the steps that a full run without --append launches
C18_AppendIsAccepted ==
    (prog = "rp" /\ pc # "start" /\ loc.append) =>
        /\ \A i \in DOMAIN loc.launched :
            "--append" \in Range(loc.launched[i].args) => loc.launched[i].why # "usage"
        /\ ( /\ pc = "exited"
             /\ ~loc.argv.from_step.given
             /\ ~loc.argv.only.given
             /\ \A i \in DOMAIN loc.launched :
                  loc.launched[i].why = "work" => loc.launched[i].rc = 0 )
           => Range(NumsOf(loc.launched)) = LaunchedIfWorkSucceeds(1, FALSE, loc.layout)

\* the same for the steps other than clean_commented_refs
C18_HoldsForOtherSteps ==
    (prog = "rp" /\ pc # "start" /\ loc.append) =>
        \A i \in DOMAIN loc.launched :
            ("--append" \in Range(loc.launched[i].args) /\ loc.launched[i].num # 4)
                => loc.launched[i].why # "usage"

-----------------------------------------------------------------------------
(* clean_commented_refs --apply: the removed groups *)

\* C19: in a run with --apply, a group of lines taken out of a file holds the
\* line on which the scan recorded the commented reference, for the first and
\* for every later removal in the file
C19_RemovedGroupHoldsRecordedLine ==
    (prog = "ccr" /\ apply /\ pc \in {"locs", "comment", "pure", "done"} /\ loc.removal # <<>>) =>
        loc.removal[1].line_no \in loc.removal[1].lines

\* the same for the groups taken out of a file that has all its lines of the
\* scan: no earlier removal has shortened it
C19_FirstRemovalInFile ==
    (prog = "ccr" /\ apply /\ pc \in {"locs", "comment", "pure", "done"} /\ loc.removal # <<>>) =>
        LET r == loc.removal[1]
        IN  Len(loc.origin[r.file]) + Cardinality(r.lines) = Len(TextOf(r.file, fs0.mnemo, fs0.objs))
                => r.line_no \in r.lines

\* the same for the groups taken out of a file that an earlier removal of the
\* run has shortened
C19_LaterRemovalInFile ==
    (prog = "ccr" /\ apply /\ pc \in {"locs", "comment", "pure", "done"} /\ loc.removal # <<>>) =>
        LET r == loc.removal[1]
        IN  Len(loc.origin[r.file]) + Cardinality(r.lines) < Len(TextOf(r.file, fs0.mnemo, fs0.objs))
                => r.line_no \in r.lines

\* C20: a run with --apply does not end in an exception raised on a file's
\* contents: clean_commented_block gives a list of line numbers for every
\* recorded location, also when earlier removals have made the file shorter
\* than the recorded line number
C20_ApplyRunNeverAborts ==
    prog = "ccr" =>
        /\ pc # "crashed"
        /\ (apply /\ pc = "locs" /\ loc.locs # <<>>) =>
              LET l == Head(loc.locs)
              IN  clean_commented_block(TextOf(l.file, mnemo, objs), l.line_no) # Raise

-----------------------------------------------------------------------------
(* clean_commented_block on one text and one line number *)

MaxBlockLines == 4

\* comment lines with and without a reference, the bare marker, a blank line
\* and a line of code
BlockLineSet == {LCommentRef(2), <<Sl, Sl, Xc>>, LBare, <<Sp>>, LCode}

BlockTexts == UNION {[1..n -> BlockLineSet] : n \in 1..MaxBlockLines}

BlockInit ==
    /\ prog = "ccb"
    /\ pc = "start"
    /\ run = 1
    /\ apply = TRUE
    /\ mnemo = <<>>
    /\ objs = <<>>
    /\ shared = <<>>
    /\ \E t \in BlockTexts :
        \E n \in 1..Len(t) :
            /\ loc = [lines |-> t, start_line |-> n]
            /\ fs0 = [mnemo |-> t, objs |-> <<>>, shared |-> <<>>]
    /\ hist = <<>>
    /\ audit = {}
    /\ report = {}

\* block = clean_commented_block(src_file, line_no)
CcbCall ==
    /\ prog = "ccb"
    /\ pc = "start"
    /\ loc' = [lines |-> loc.lines, start_line |-> loc.start_line,
               block |-> clean_commented_block(loc.lines, loc.start_line)]
    /\ pc' = "done"
    /\ UNCHANGED <<prog, run, apply, mnemo, objs, shared, fs0, hist, audit, report>>

BlockSpec == BlockInit /\ [][CcbCall]_vars

\* a // comment line that holds more than the marker
IsGroupLine(line) == is_line_commented(line) /\ ~IsBareMarker(line)

\* the lines joined to line s by // comment lines that hold more than the
\* marker, s among them
GroupAround(lines, s) ==
    {i \in 1..Len(lines) :
        \A j \in 1..Len(lines) :
            ((i <= j /\ j <= s) \/ (s <= j /\ j <= i)) => IsGroupLine(lines[j])}

\* the matched line is a // comment line with a reference
MatchedLineCase ==
    /\ prog = "ccb"
    /\ pc = "done"
    /\ loc.lines[loc.start_line] = LCommentRef(2)

\* C21: the block of a matched line is the run of // comment lines around it,
\* ended in both directions by the first blank line, line of code or line
\* with nothing but //; such a line and what lies behind it are not in the
\* block
C21_BlockStopsAtSeparators ==
    MatchedLineCase =>
        Range(loc.block) = GroupAround(loc.lines, loc.start_line)

\* the same for the lines before the matched line
C21_HoldsBackward ==
    MatchedLineCase =>
        {i \in Range(loc.block) : i <= loc.start_line}
            = {i \in GroupAround(loc.lines, loc.start_line) : i <= loc.start_line}

-----------------------------------------------------------------------------
(* clean_commented_refs --apply: what a removal takes out of a file *)

\* the step handles one recorded location of a run with --apply and does not
\* raise
RemovalStep ==
    /\ prog = "ccr"
    /\ apply
    /\ pc = "locs"
    /\ loc.locs # <<>>
    /\ pc' = "locs"

\* the text after the step is the text before it without some lines that
\* begin with // in the text before it
OnlyCommentLinesGo(before, after) ==
    \E S \in SUBSET (1..Len(before)) :
        /\ \A n \in S : is_line_commented(before[n])
        /\ after = remove_commented_lines(before, S)

\* C22: a line that a run with --apply takes out of a file begins with // as
\* the file reads at that moment; a line that does not begin with // stays,
\* whatever line number was recorded
C22_OnlyCommentLinesRemoved ==
    [][RemovalStep =>
        /\ OnlyCommentLinesGo(mnemo, mnemo')
        /\ \A n \in DOMAIN objs :
            /\ n \in DOMAIN objs'
            /\ OnlyCommentLinesGo(objs[n], objs'[n])]_vars

\* a removal in a file that an earlier removal of the run has shortened, the
\* recorded line number pointing at another line than at the scan
C22_Witness ==
    /\ prog = "ccr"
    /\ apply
    /\ run = 1
    /\ pc = "locs"
    /\ loc.removal # <<>>
    /\ LET r == loc.removal[1]
       IN  /\ Len(loc.origin[r.file]) + Cardinality(r.lines)
                < Len(TextOf(r.file, fs0.mnemo, fs0.objs))
           /\ r.line_no \notin r.lines

-----------------------------------------------------------------------------
(* cleanup_classes.remove_unused_class_blocks *)

MaxClassPieces == 4

\* the opening quote of a dialect: &quot; , " , \"
QuoteOf(d) ==
    CASE d = "ent" -> <<Ch("&quot;")>>
      [] d = "plain" -> <<Ch("\"")>>
      [] d = "esc" -> <<Ch("\\"), Ch("\"")>>

\* if(settings["struct"] == "CLASS") in dialect d; the words between the
\* quotes are one element each
IfHead(d, class) ==
    <<Ch("if(settings[")>> \o QuoteOf(d) \o <<Ch("struct")>> \o QuoteOf(d)
        \o <<Ch("]==")>> \o QuoteOf(d) \o <<Ch(class)>> \o QuoteOf(d) \o <<Ch(")")>>

ClassNames == {"A", "B"}

\* the order of the list patterns, lines 54-67
Patterns == <<"ent", "plain", "esc">>

\* pattern.finditer(text): the matches of one dialect, left to right, as
\* (start, end, class)
RECURSIVE FindHeads(_, _, _)
FindHeads(text, d, i) ==
    IF i >= Len(text) THEN <<>>
    ELSE IF ~IsAt(text, i, "if(settings[") THEN FindHeads(text, d, i + 1)
    ELSE LET hit == {c \in ClassNames :
                        /\ i + Len(IfHead(d, c)) <= Len(text)
                        /\ SubSeq(text, i + 1, i + Len(IfHead(d, c))) = IfHead(d, c)}
         IN  IF hit = {} THEN FindHeads(text, d, i + 1)
             ELSE LET c == CHOOSE x \in hit : TRUE
                  IN  <<[start |-> i, end |-> i + Len(IfHead(d, c)), class |-> c]>>
                         \o FindHeads(text, d, i + Len(IfHead(d, c)))

\* lines 83-94: over white space and // comments up to the brace
RECURSIVE SkipToBrace(_, _)
SkipToBrace(text, j) ==
    IF j >= Len(text) THEN j
    ELSE IF IsAt(text, j, " ") \/ IsAt(text, j, "nl") THEN SkipToBrace(text, j + 1)
    ELSE IF TwoAt(text, j, "/", "/") THEN SkipToBrace(text, SkipToNewline(text, j))
    ELSE j

\* lines 108-109
RECURSIVE BackOverSpaces(_, _)
BackOverSpaces(text, b) ==
    IF b > 0 /\ IsAt(text, b - 1, " ") THEN BackOverSpaces(text, b - 1) ELSE b

\* lines 116-117
RECURSIVE OverSpaces(_, _)
OverSpaces(text, e) ==
    IF e < Len(text) /\ IsAt(text, e, " ") THEN OverSpaces(text, e + 1) ELSE e

\* lines 74-121 for one match: the span to remove, or none
SpanOf(text, m, available_classes) ==
    IF m.class \in available_classes THEN <<>>
    ELSE LET j == SkipToBrace(text, m.end)
         IN  IF j >= Len(text) \/ ~IsAt(text, j, "{") THEN <<>>
             ELSE LET brace_end == find_matching_brace(text, j)
                  IN  IF brace_end = -1 THEN <<>>
                      ELSE LET b1 == BackOverSpaces(text, m.start)
                               block_start == IF b1 > 0 /\ IsAt(text, b1 - 1, "nl")
                                              THEN b1 - 1 ELSE b1
                               e1 == OverSpaces(text, brace_end + 1)
                               block_end == IF e1 < Len(text) /\ IsAt(text, e1, "nl")
                                            THEN e1 + 1 ELSE e1
                           IN  <<[start |-> block_start, end |-> block_end,
                                  class |-> m.class]>>

RECURSIVE SpansOf(_, _, _)
SpansOf(text, heads, available_classes) ==
    IF heads = <<>> THEN <<>>
    ELSE SpanOf(text, Head(heads), available_classes)
            \o SpansOf(text, Tail(heads), available_classes)

\* lines 72-121: blocks_to_remove, pattern by pattern
BlocksToRemove(text, available_classes) ==
    SpansOf(text, FindHeads(text, Patterns[1], 0), available_classes)
        \o SpansOf(text, FindHeads(text, Patterns[2], 0), available_classes)
        \o SpansOf(text, FindHeads(text, Patterns[3], 0), available_classes)

\* line 127: sort(key = start, reverse = True); no two spans start at the
\* same offset, a span starting in the white space before its own if
SortByStartDesc(blocks) ==
    [i \in 1..Len(blocks) |->
        blocks[CHOOSE k \in 1..Len(blocks) :
                  Cardinality({n \in 1..Len(blocks) : blocks[n].start > blocks[k].start}) = i - 1]]

Overlaps(a, b) == a.start < b.end /\ a.end > b.start

\* a filter that keeps every span
FilterNothing(blocks, filtered) == filtered \o blocks

\* lines 130-138: a span is kept when it overlaps none of the spans kept
\* before it
RECURSIVE FilterOverlaps(_, _)
FilterOverlaps(blocks, filtered) ==
    IF blocks = <<>> THEN filtered
    ELSE IF \E k \in 1..Len(filtered) : Overlaps(Head(blocks), filtered[k])
         THEN FilterOverlaps(Tail(blocks), filtered)
         ELSE FilterOverlaps(Tail(blocks), Append(filtered, Head(blocks)))

\* lines 141-143: text = text[:start] + text[end:], span after span
RECURSIVE CutSpans(_, _)
CutSpans(text, filtered) ==
    IF filtered = <<>> THEN text
    ELSE CutSpans(SubSeq(text, 1, Head(filtered).start)
                      \o SubSeq(text, Head(filtered).end + 1, Len(text)),
                  Tail(filtered))

RECURSIVE ClassesOf(_)
ClassesOf(filtered) ==
    IF filtered = <<>> THEN <<>> ELSE <<Head(filtered).class>> \o ClassesOf(Tail(filtered))

\* the spans finally deleted, in the order of their deletion
FilteredSpans(text, available_classes) ==
    FilterOverlaps(SortByStartDesc(BlocksToRemove(text, available_classes)), <<>>)

\* (new_text, removed)
remove_unused_class_blocks(text, available_classes) ==
    LET filtered == FilteredSpans(text, available_classes)
    IN  [text |-> CutSpans(text, filtered), removed |-> ClassesOf(filtered)]

\* the pieces of an object's script: if-heads of the three dialects for a
\* class that is missing (B) and one that is there (A), each with its brace,
\* a whole block on a line of its own, and braces, a closing brace with the
\* end of its line, a quote
ClassPieces ==
    {IfHead("plain", "B") \o <<Ch("{")>>, IfHead("ent", "B") \o <<Ch("{")>>,
     IfHead("esc", "B") \o <<Ch("{")>>, IfHead("plain", "A") \o <<Ch("{")>>,
     IfHead("plain", "B") \o <<Ch("{"), Ch("}"), NL>>,
     <<Ch("{")>>, <<Ch("}")>>, <<Ch("}"), NL>>, <<Ch("\"")>>}

ClassTexts == {Flat(ps) : ps \in UNION {[1..n -> ClassPieces] : n \in 0..MaxClassPieces}}

ClassInit ==
    /\ prog = "ruc"
    /\ pc = "start"
    /\ run = 1
    /\ apply = FALSE
    /\ mnemo = <<>>
    /\ objs = <<>>
    /\ shared = <<>>
    /\ \E t \in ClassTexts :
        /\ loc = [text |-> t, available_classes |-> {"A"}]
        /\ fs0 = [mnemo |-> <<t>>, objs |-> <<>>, shared |-> <<>>]
    /\ hist = <<>>
    /\ audit = {}
    /\ report = {}

\* main: new_text, removed = remove_unused_class_blocks(text, available)
RucCall ==
    /\ prog = "ruc"
    /\ pc = "start"
    /\ loc' = [text |-> loc.text, available_classes |-> loc.available_classes,
               spans |-> FilteredSpans(loc.text, loc.available_classes),
               first |-> remove_unused_class_blocks(loc.text, loc.available_classes)]
    /\ pc' = "once"
    /\ UNCHANGED <<prog, run, apply, mnemo, objs, shared, fs0, hist, audit, report>>

\* the next run of the script, on the text the first one wrote
RucCallAgain ==
    /\ prog = "ruc"
    /\ pc = "once"
    /\ loc' = [text |-> loc.text, available_classes |-> loc.available_classes,
               spans |-> loc.spans,
               first |-> loc.first,
               second |-> remove_unused_class_blocks(loc.first.text, loc.available_classes)]
    /\ pc' = "twice"
    /\ UNCHANGED <<prog, run, apply, mnemo, objs, shared, fs0, hist, audit, report>>

ClassNext ==
    \/ RucCall
    \/ RucCallAgain

ClassSpec == ClassInit /\ [][ClassNext]_vars

\* C23: every if-block for a class that is not available and whose brace has
\* a match is removed, nested ones too, so a second application to the
\* result removes nothing
C23_RemovesAllAndIdempotent ==
    (prog = "ruc" /\ pc = "twice") =>
        /\ loc.second.removed = <<>>
        /\ loc.second.text = loc.first.text
        /\ BlocksToRemove(loc.first.text, loc.available_classes) = <<>>

\* the elements of the text from offset i on that lie in none of the spans
RECURSIVE KeepOutside(_, _, _)
KeepOutside(text, spans, i) ==
    IF i >= Len(text) THEN <<>>
    ELSE (IF \E k \in 1..Len(spans) : spans[k].start <= i /\ i < spans[k].end
          THEN <<>> ELSE <<At(text, i)>>)
            \o KeepOutside(text, spans, i + 1)

\* C24: the spans finally deleted do not overlap one another and are deleted
\* from the highest start to the lowest; the returned text is the input with
\* those spans cut out and all else kept in order; every class in the
\* returned list is not in available_classes
C24_SpansCutCleanly ==
    (prog = "ruc" /\ pc = "once") =>
        /\ \A i, j \in 1..Len(loc.spans) :
            i # j => ~Overlaps(loc.spans[i], loc.spans[j])
        /\ \A i, j \in 1..Len(loc.spans) :
            i < j => loc.spans[i].start > loc.spans[j].start
        /\ \A i \in 1..Len(loc.spans) :
            0 <= loc.spans[i].start /\ loc.spans[i].start < loc.spans[i].end
                /\ loc.spans[i].end <= Len(loc.text)
        /\ loc.first.text = KeepOutside(loc.text, loc.spans, 0)
        /\ loc.first.removed = ClassesOf(loc.spans)
        /\ \A i \in 1..Len(loc.first.removed) :
            loc.first.removed[i] \notin loc.available_classes

\* two blocks are deleted and a third, which overlaps one of them, is not
C24_Witness ==
    /\ prog = "ruc"
    /\ pc = "once"
    /\ Len(loc.spans) >= 2
    /\ Len(BlocksToRemove(loc.text, loc.available_classes)) > Len(loc.spans)

-----------------------------------------------------------------------------
(* The brace matchers pass by pass: the main loop of find_matching_brace   *)
(* and of find_block_end with the scan index, the depth and the highest    *)
(* offset the pass has indexed                                             *)

MaxScanPieces == 3

MaxScanStart == 2

\* text[j] is indexed: the highest offset indexed so far
Indexed(top, j) == IF j > top THEN j ELSE top

\* "i + 1 < length and text[i + 1] == ..." indexes i + 1 only behind its guard
Peek(text, i, top) == IF i + 1 < Len(text) THEN Indexed(top, i + 1) ELSE top

\* parse_utils 59-60: while i < length and text[i] != '\n': i += 1
RECURSIVE LineLoop(_, _, _)
LineLoop(text, i, top) ==
    IF i < Len(text)
    THEN IF ~IsCh(At(text, i), "nl")
         THEN LineLoop(text, i + 1, Indexed(top, i))
         ELSE [i |-> i, top |-> Indexed(top, i), closed |-> TRUE]
    ELSE [i |-> i, top |-> top, closed |-> FALSE]

\* parse_utils 66-70: while i + 1 < length, up to and over the closing */
RECURSIVE BlockLoop(_, _, _)
BlockLoop(text, i, top) ==
    IF i + 1 < Len(text)
    THEN IF IsCh(At(text, i), "*")
         THEN IF IsCh(At(text, i + 1), "/")
              THEN [i |-> i + 2, top |-> Indexed(top, i + 1), closed |-> TRUE]
              ELSE BlockLoop(text, i + 1, Indexed(top, i + 1))
         ELSE BlockLoop(text, i + 1, Indexed(top, i))
    ELSE [i |-> i, top |-> top, closed |-> FALSE]

\* parse_utils 76-80: while i < length, up to and over the closing \"
RECURSIVE EscLoop(_, _, _)
EscLoop(text, i, top) ==
    IF i < Len(text)
    THEN IF IsCh(At(text, i), "\\")
         THEN IF i + 1 < Len(text) /\ IsCh(At(text, i + 1), "\"")
              THEN [i |-> i + 2, top |-> Indexed(top, i + 1), closed |-> TRUE]
              ELSE EscLoop(text, i + 1, Peek(text, i, Indexed(top, i)))
         ELSE EscLoop(text, i + 1, Indexed(top, i))
    ELSE [i |-> i, top |-> top, closed |-> FALSE]

\* parse_utils 86-90: while i < length, up to and over the closing &quot;; the
\* slice text[i:i+6] is one element here
RECURSIVE EntLoop(_, _, _)
EntLoop(text, i, top) ==
    IF i < Len(text)
    THEN IF At(text, i) = Ch("&quot;")
         THEN [i |-> i + 1, top |-> Indexed(top, i), closed |-> TRUE]
         ELSE EntLoop(text, i + 1, Indexed(top, i))
    ELSE [i |-> i, top |-> top, closed |-> FALSE]

\* a quoted loop that looks at the character behind a backslash
RECURSIVE QuoteLoopLooking(_, _, _, _)
QuoteLoopLooking(text, i, q, top) ==
    IF i < Len(text)
    THEN IF IsCh(At(text, i), "\\")
         THEN QuoteLoopLooking(text, i + 2, q, Indexed(top, i + 1))
         ELSE IF IsCh(At(text, i), q)
              THEN [i |-> i + 1, top |-> Indexed(top, i), closed |-> TRUE]
              ELSE QuoteLoopLooking(text, i + 1, q, Indexed(top, i))
    ELSE [i |-> i + 1, top |-> top, closed |-> FALSE]

\* parse_utils 95-103, split_ctl 35-43 and 48-56: while i < length, a
\* backslash takes two offsets, the quote q breaks; then i += 1
RECURSIVE QuoteLoop(_, _, _, _)
QuoteLoop(text, i, q, top) ==
    IF i < Len(text)
    THEN IF IsCh(At(text, i), "\\")
         THEN QuoteLoop(text, i + 2, q, Indexed(top, i))
         ELSE IF IsCh(At(text, i), q)
              THEN [i |-> i + 1, top |-> Indexed(top, i), closed |-> TRUE]
              ELSE QuoteLoop(text, i + 1, q, Indexed(top, i))
    ELSE [i |-> i + 1, top |-> top, closed |-> FALSE]

\* the record of one pass: where the scan goes on, the depth, the highest
\* offset indexed, the branch taken and whether the pass returned offset i
Pass(at, r, depth, kind) ==
    [i |-> r.i, depth |-> depth, top |-> r.top, kind |-> kind, from |-> at,
     closed |-> r.closed, found |-> FALSE]

\* the conditions of a pass test text[i] first and text[i + 1] behind / and \
Looked(text, i, top, ahead) ==
    IF \E c \in ahead : IsCh(At(text, i), c)
    THEN Peek(text, i, Indexed(top, i)) ELSE Indexed(top, i)

\* parse_utils 106-113, split_ctl 78-85: the braces and any other character
BracePass(text, i, depth, top) ==
    LET base == [i |-> i + 1, depth |-> depth, top |-> top, kind |-> "other",
                 from |-> i, closed |-> FALSE, found |-> FALSE]
    IN  IF IsCh(At(text, i), "{")
        THEN [base EXCEPT !.depth = depth + 1, !.kind = "open"]
        ELSE IF IsCh(At(text, i), "}")
        THEN IF depth - 1 = 0
             THEN [base EXCEPT !.i = i, !.depth = 0, !.kind = "close", !.found = TRUE]
             ELSE [base EXCEPT !.depth = depth - 1, !.kind = "close"]
        ELSE base

\* parse_utils 56-113: one pass of the loop of find_matching_brace at i < length
FmbPassAt(text, i, depth, top) ==
    LET t == Looked(text, i, top, {"/", "\\"})
    IN  IF TwoAt(text, i, "/", "/") THEN Pass(i, LineLoop(text, i, t), depth, "line")
        ELSE IF TwoAt(text, i, "/", "*")
            THEN Pass(i, BlockLoop(text, i + 2, t), depth, "block")
        ELSE IF TwoAt(text, i, "\\", "\"")
            THEN Pass(i, EscLoop(text, i + 2, t), depth, "esc")
        ELSE IF At(text, i) = Ch("&quot;")
            THEN Pass(i, EntLoop(text, i + 1, t), depth, "ent")
        ELSE IF IsCh(At(text, i), "\"")
            THEN Pass(i, QuoteLoop(text, i + 1, "\"", t), depth, "plain")
        ELSE BracePass(text, i, depth, t)

\* split_ctl 30-85: one pass of the loop of find_block_end at i < length
FbePassAt(text, i, depth, top) ==
    LET t == Looked(text, i, top, {"/"})
    IN  IF IsCh(At(text, i), "\"")
            THEN Pass(i, QuoteLoop(text, i + 1, "\"", t), depth, "plain")
        ELSE IF IsCh(At(text, i), "'")
            THEN Pass(i, QuoteLoop(text, i + 1, "'", t), depth, "single")
        ELSE IF TwoAt(text, i, "/", "/")
            THEN LET r == LineLoop(text, i + 2, t)
                 IN  Pass(i, [r EXCEPT !.i = r.i + 1], depth, "line")
        ELSE IF TwoAt(text, i, "/", "*")
            THEN Pass(i, BlockLoop(text, i + 2, t), depth, "block")
        ELSE BracePass(text, i, depth, t)

\* the pieces of a scanned text: single characters and the pairs that open and
\* close comments and \" strings
ScanPieces ==
    {<<Ch("{")>>, <<Ch("}")>>, <<Sl>>, <<Ch("\\")>>, <<Ch("\"")>>, <<Ch("'")>>,
     <<Ch("&quot;")>>, <<NL>>, <<Ch("\\"), Ch("\"")>>, <<Sl, St>>, <<St, Sl>>,
     <<Sl, Sl>>}

ScanTexts == {Flat(ps) : ps \in UNION {[1..n -> ScanPieces] : n \in 0..MaxScanPieces}}

\* depth = 0; i = open_pos; length = len(text)
ScanInit ==
    /\ prog \in {"scan_fmb", "scan_fbe"}
    /\ pc = "loop"
    /\ run = 1
    /\ apply = FALSE
    /\ mnemo = <<>>
    /\ objs = <<>>
    /\ shared = <<>>
    /\ \E t \in ScanTexts, p \in 0..MaxScanStart :
        /\ loc = [text |-> t, open_pos |-> p, i |-> p, depth |-> 0, top |-> -1,
                  kind |-> "none", from |-> p, closed |-> FALSE, result |-> -2]
        /\ fs0 = [mnemo |-> <<t>>, objs |-> <<>>, shared |-> <<>>]
    /\ hist = <<>>
    /\ audit = {}
    /\ report = {}

\* the fields a pass sets
AfterPass(p) ==
    [loc EXCEPT !.i = p.i, !.depth = p.depth, !.top = p.top, !.kind = p.kind,
                !.from = p.from, !.closed = p.closed,
                !.result = IF p.found THEN p.i ELSE loc.result]

\* one pass of "while i < length" in find_matching_brace
FmbPass ==
    /\ prog = "scan_fmb"
    /\ pc = "loop"
    /\ loc.i < Len(loc.text)
    /\ LET p == FmbPassAt(loc.text, loc.i, loc.depth, loc.top)
       IN  /\ loc' = AfterPass(p)
           /\ pc' = IF p.found THEN "done" ELSE "loop"
    /\ UNCHANGED <<prog, run, apply, mnemo, objs, shared, fs0, hist, audit, report>>

\* return -1
FmbExit ==
    /\ prog = "scan_fmb"
    /\ pc = "loop"
    /\ loc.i >= Len(loc.text)
    /\ loc' = [loc EXCEPT !.result = -1, !.kind = "exit"]
    /\ pc' = "done"
    /\ UNCHANGED <<prog, run, apply, mnemo, objs, shared, fs0, hist, audit, report>>

\* one pass of "while i < length" in find_block_end
FbePass ==
    /\ prog = "scan_fbe"
    /\ pc = "loop"
    /\ loc.i < Len(loc.text)
    /\ LET p == FbePassAt(loc.text, loc.i, loc.depth, loc.top)
       IN  /\ loc' = AfterPass(p)
           /\ pc' = IF p.found THEN "done" ELSE "loop"
    /\ UNCHANGED <<prog, run, apply, mnemo, objs, shared, fs0, hist, audit, report>>

\* return length - 1
FbeExit ==
    /\ prog = "scan_fbe"
    /\ pc = "loop"
    /\ loc.i >= Len(loc.text)
    /\ loc' = [loc EXCEPT !.result = Len(loc.text) - 1, !.kind = "exit"]
    /\ pc' = "done"
    /\ UNCHANGED <<prog, run, apply, mnemo, objs, shared, fs0, hist, audit, report>>

ScanNext ==
    \/ FmbPass
    \/ FmbExit
    \/ FbePass
    \/ FbeExit

ScanSpec == ScanInit /\ [][ScanNext]_vars

\* the loop runs on while it can: a call that is started is carried through
ScanLive == ScanSpec /\ WF_vars(ScanNext)

\* the passes end with what the functions return
ScanAgrees ==
    (prog \in {"scan_fmb", "scan_fbe"} /\ pc = "done") =>
        loc.result = IF prog = "scan_fmb"
                     THEN find_matching_brace(loc.text, loc.open_pos)
                     ELSE find_block_end(loc.text, loc.open_pos)

\* the closing quote of dialect d stands at offset i
CloserAt(text, i, d) ==
    IF d = "esc" THEN TwoAt(text, i, "\\", "\"")
    ELSE IF d = "ent" THEN IsQuotAt(text, i)
    ELSE IsAt(text, i, "\"")

\* the offsets the quote of dialect d takes
QuoteLen(d) == IF d = "esc" THEN 2 ELSE 1

\* where a string of dialect d read from offset i ends when a backslash and
\* the character behind it are one escape pair that closes nothing
RECURSIVE EscapeAware(_, _, _)
EscapeAware(text, i, d) ==
    IF i >= Len(text) THEN [closed |-> FALSE, i |-> i]
    ELSE IF CloserAt(text, i, d) THEN [closed |-> TRUE, i |-> i + QuoteLen(d)]
    ELSE IF IsAt(text, i, "\\") THEN EscapeAware(text, i + 2, d)
    ELSE EscapeAware(text, i + 1, d)

\* the pass that has just run read a string of dialect d as escape pairs
ReadAsPairs(d) ==
    LET e == EscapeAware(loc.text, loc.from + QuoteLen(d), d)
    IN  /\ e.closed = loc.closed
        /\ e.closed => e.i = loc.i

\* C25: in a string literal of any of the three dialects find_matching_brace
\* takes a backslash and the character behind it as one escape pair, so the
\* string ends at its first quote that no backslash escapes
C25_EscapePairsInEveryDialect ==
    (prog = "scan_fmb" /\ loc.kind \in {"esc", "ent", "plain"}) => ReadAsPairs(loc.kind)

\* the plain "..." dialect is read as escape pairs
C25_HoldsForPlain ==
    (prog = "scan_fmb" /\ loc.kind = "plain") => ReadAsPairs("plain")

\* a "..." string with a backslash before a quote has been read
C25_PlainEscapeRead ==
    /\ prog = "scan_fmb"
    /\ loc.kind = "plain"
    /\ loc.closed
    /\ \E j \in (loc.from + 1)..(loc.i - 3) : TwoAt(loc.text, j, "\\", "\"")

\* the offset at which the depth of the braces that stand in code, counted
\* from offset i on, first returns to 0, and -1 when it never does; regions
\* holds for each element of the text what the language reads it as
RECURSIVE CodeMatch(_, _, _, _)
CodeMatch(text, regions, i, depth) ==
    IF i >= Len(text) THEN -1
    ELSE IF regions[i + 1] = "code" /\ IsAt(text, i, "{")
         THEN CodeMatch(text, regions, i + 1, depth + 1)
    ELSE IF regions[i + 1] = "code" /\ IsAt(text, i, "}")
         THEN IF depth - 1 = 0 THEN i ELSE CodeMatch(text, regions, i + 1, depth - 1)
    ELSE CodeMatch(text, regions, i + 1, depth)

\* text[open_pos] is a { that stands in code
OpensInCode ==
    /\ prog = "scan_fmb"
    /\ IsAt(loc.text, loc.open_pos, "{")
    /\ QuoteRegions(loc.text, 1, "code")[loc.open_pos + 1] = "code"

\* the depth is never negative and is at least 1 from the opening brace on;
\* what is returned is -1 or the offset of a } behind the opening brace
DepthKept ==
    /\ loc.depth >= 0
    /\ (pc = "loop" /\ loc.kind # "none") => loc.depth >= 1
    /\ pc = "done" =>
        \/ loc.result = -1
        \/ loc.result > loc.open_pos /\ IsAt(loc.text, loc.result, "}")

\* C26: for a { in code find_matching_brace returns -1 or the first offset
\* behind it at which the braces outside strings and comments are balanced, a
\* }; the depth is at least 1 at every offset scanned before and never negative
C26_MatchIsFirstBalance ==
    OpensInCode =>
        /\ DepthKept
        /\ pc = "done" =>
            \/ loc.result = -1
            \/ loc.result = CodeMatch(loc.text, QuoteRegions(loc.text, 1, "code"),
                                      loc.open_pos, 0)

\* the depth counter and the kind of offset returned are as stated
C26_HoldsForDepth == OpensInCode => DepthKept

\* a block with an inner block has been matched from offset 1
C26_InnerMatched ==
    /\ OpensInCode
    /\ pc = "done"
    /\ loc.open_pos = 1
    /\ loc.result = 2

\* C27: find_matching_brace and find_block_end terminate for every text and
\* start offset: every pass of the main loop that does not return moves the
\* scan index forward, no offset at or behind the end of the text is indexed,
\* and the call ends
C27_ScanTerminates ==
    /\ [](prog \in {"scan_fmb", "scan_fbe"} => loc.top < Len(loc.text))
    /\ [][(prog \in {"scan_fmb", "scan_fbe"} /\ pc' = "loop") => loc'.i > loc.i]_vars
    /\ <>(pc = "done")

\* a call has ended behind a string that is not closed and ends with a
\* backslash
C27_Witness ==
    /\ prog \in {"scan_fmb", "scan_fbe"}
    /\ pc = "done"
    /\ loc.text # <<>>
    /\ IsCh(loc.text[Len(loc.text)], "\\")
    /\ loc.i = Len(loc.text) + 2
    /\ loc.top = Len(loc.text) - 1

\* a call has ended behind a /* that is not closed
C27_UnclosedComment ==
    /\ prog \in {"scan_fmb", "scan_fbe"}
    /\ pc = "done"
    /\ loc.kind = "exit"
    /\ \E j \in 0..(Len(loc.text) - 2) :
        /\ TwoAt(loc.text, j, "/", "*")
        /\ \A k \in 0..(Len(loc.text) - 2) : ~TwoAt(loc.text, k, "*", "/")
        /\ \A k \in 0..(j - 1) : IsAt(loc.text, k, "{")

-----------------------------------------------------------------------------
(* fix_cross_refs.process_cabinet: what becomes of the references it finds *)

\* process_cabinet has returned, and not at its iteration cap
FcrReturnedFreely ==
    /\ prog = "fcr"
    /\ pc \in {"returned", "done"}
    /\ ~(loc.found_new /\ loc.iteration > FcrIterCap)

\* C28: when process_cabinet returns without reaching its iteration cap, every
\* un-prefixed reference it found in a file of the cabinet has its file in the
\* cabinet folder, or is in stats['missing'] with the file that holds it
C28_EveryReferenceAccounted ==
    FcrReturnedFreely =>
        \A e \in loc.seen : e.rel \in DOMAIN objs \/ e \in loc.missing

\* the same for texts with at most one un-prefixed reference to a folder
C28_HoldsForOneRefPerFolder ==
    (FcrReturnedFreely /\ \A e, f \in loc.seen : DirOf(e.rel) = DirOf(f.rel) => e.rel = f.rel) =>
        \A e \in loc.seen : e.rel \in DOMAIN objs \/ e \in loc.missing

\* a run that copied one object and reported another as missing
C28_CopiedAndMissing ==
    /\ FcrReturnedFreely
    /\ \A e, f \in loc.seen : DirOf(e.rel) = DirOf(f.rel) => e.rel = f.rel
    /\ loc.objects_copied >= 1
    /\ loc.missing # {}

-----------------------------------------------------------------------------
(* split_ctl.resolve_needed_classes *)

\* the class names of a .ctl file; skifcontent is the base class, which
\* parse_ctl keeps out of class_blocks and class_parents
CtlClasses == {"A", "B", "C"}

\* parse_ctl lines 122-141: class_parents has a key for every key of
\* class_blocks, and its value is the name behind the colon or "skifcontent";
\* the parent of a class need not be a class of the file
ClassTables ==
    UNION {[S -> CtlClasses \cup {"skifcontent"}] : S \in SUBSET CtlClasses}

\* the structs of the cabinet, the private globals and the mapping entries
ResolveInit ==
    /\ prog = "rnc"
    /\ pc = "start"
    /\ run = 1
    /\ apply = FALSE
    /\ mnemo = <<>>
    /\ objs = <<>>
    /\ shared = <<>>
    /\ fs0 = [mnemo |-> <<>>, objs |-> <<>>, shared |-> <<>>]
    /\ \E cp \in ClassTables, st \in SUBSET {"A", "B", "K"},
          gl \in {<<>>, <<[gtype |-> "C", gvar |-> "v"]>>, <<[gtype |-> "Z", gvar |-> "v"]>>},
          me \in {<<>>, <<[mkey |-> "K", mvar |-> "v"]>>} :
        loc = [structs |-> st, class_parents |-> cp, global_list |-> gl,
               mapping_entries |-> me, needed |-> {}, todo |-> {}, parent |-> "",
               passes |-> 0]
    /\ hist = <<>>
    /\ audit = {}
    /\ report = {}

\* lines 220-226: a dict built from pairs keeps the last value of a key
LastOf(pairs, key, k, v) ==
    LET at == {i \in 1..Len(pairs) : pairs[i][k] = key}
    IN  IF at = {} THEN "" ELSE pairs[CHOOSE i \in at : \A j \in at : j <= i][v]

\* lines 228-243: the classes one struct makes needed
NeededFor(struct, all_classes, global_list, mapping_entries) ==
    LET var == LastOf(mapping_entries, struct, "mkey", "mvar")
        gtype == IF var = "" THEN "" ELSE LastOf(global_list, var, "gvar", "gtype")
    IN  (IF struct \in all_classes THEN {struct} ELSE {})
            \cup (IF gtype \in all_classes THEN {gtype} ELSE {})
            \cup (IF /\ \E i \in 1..Len(global_list) : global_list[i].gtype = struct
                     /\ struct \in all_classes
                  THEN {struct} ELSE {})

\* lines 216-243, and list(needed) of line 246
RncSeed ==
    /\ prog = "rnc"
    /\ pc = "start"
    /\ LET all_classes == DOMAIN loc.class_parents
           needed == UNION {NeededFor(s, all_classes, loc.global_list, loc.mapping_entries) :
                                s \in loc.structs}
       IN  loc' = [loc EXCEPT !.needed = needed, !.todo = needed]
    /\ pc' = "for"
    /\ UNCHANGED <<prog, run, apply, mnemo, objs, shared, fs0, hist, audit, report>>

\* lines 246-247: the next class of the list, in the order the set gave it
RncFor ==
    /\ prog = "rnc"
    /\ pc = "for"
    /\ \E cls \in loc.todo :
        loc' = [loc EXCEPT !.todo = @ \ {cls}, !.parent = loc.class_parents[cls]]
    /\ pc' = "while"
    /\ UNCHANGED <<prog, run, apply, mnemo, objs, shared, fs0, hist, audit, report>>

\* line 248: while parent and parent != "skifcontent" and parent in all_classes
ClimbsOn ==
    /\ loc.parent # ""
    /\ loc.parent # "skifcontent"
    /\ loc.parent \in DOMAIN loc.class_parents

\* lines 249-250: one pass of the while loop; passes is the number of passes
\* made, odd or even
RncClimb ==
    /\ prog = "rnc"
    /\ pc = "while"
    /\ ClimbsOn
    /\ loc' = [loc EXCEPT !.needed = @ \cup {loc.parent},
                          !.parent = loc.class_parents[loc.parent],
                          !.passes = (@ + 1) % 2]
    /\ UNCHANGED <<prog, pc, run, apply, mnemo, objs, shared, fs0, hist, audit, report>>

\* line 248: the condition fails
RncLeave ==
    /\ prog = "rnc"
    /\ pc = "while"
    /\ ~ClimbsOn
    /\ pc' = "for"
    /\ UNCHANGED <<prog, run, apply, mnemo, objs, shared, fs0, loc, hist, audit, report>>

\* line 252: return needed
RncReturn ==
    /\ prog = "rnc"
    /\ pc = "for"
    /\ loc.todo = {}
    /\ pc' = "done"
    /\ UNCHANGED <<prog, run, apply, mnemo, objs, shared, fs0, loc, hist, audit, report>>

ResolveNext ==
    \/ RncSeed
    \/ RncFor
    \/ RncClimb
    \/ RncLeave
    \/ RncReturn

ResolveSpec == ResolveInit /\ [][ResolveNext]_vars

\* the function runs on while it can
ResolveLive == ResolveSpec /\ WF_vars(ResolveNext)

\* the classes reached from the set S over the parent relation, through known
\* classes only
RECURSIVE AncestorsOf(_, _)
AncestorsOf(S, cp) ==
    LET more == S \cup {cp[c] : c \in S \cap DOMAIN cp}
    IN  IF more = S THEN S ELSE AncestorsOf(more, cp)

\* every ancestor of a class of N that is a known class and not skifcontent is
\* in N
ClosedUnderParents(N, cp) ==
    \A c \in N :
        \A a \in AncestorsOf({c}, cp) \ {c} :
            (a \in DOMAIN cp /\ a # "skifcontent") => a \in N

\* some class is its own ancestor
CyclicTable(cp) == \E c \in DOMAIN cp : c \in AncestorsOf({cp[c]}, cp)

\* C29: resolve_needed_classes returns for every class table, one with a
\* class that is its own ancestor included, and what it returns is closed
\* under the parent relation
C29_ResolveTerminatesClosed ==
    /\ <>(pc = "done")
    /\ [](pc = "done" => ClosedUnderParents(loc.needed, loc.class_parents))

\* the same for the tables in which no class is its own ancestor
C29_HoldsWithoutCycle ==
    ~CyclicTable(loc.class_parents) =>
        /\ <>(pc = "done")
        /\ [](pc = "done" => ClosedUnderParents(loc.needed, loc.class_parents))

\* the set returned is closed whenever the function returns
C29_ClosedAtReturn ==
    (prog = "rnc" /\ pc = "done") => ClosedUnderParents(loc.needed, loc.class_parents)

\* a class was added over two parent links
C29_GrandparentAdded ==
    /\ prog = "rnc"
    /\ pc = "done"
    /\ loc.structs = {"A"}
    /\ loc.needed = {"A", "B", "C"}

\* a call with a cyclic table that returned: no needed class leads into the cycle
C29_CycleNotEntered ==
    /\ prog = "rnc"
    /\ pc = "done"
    /\ CyclicTable(loc.class_parents)
    /\ loc.needed # {}

-----------------------------------------------------------------------------
(* rename/dp_scripts/clean_dpl.py *)

\* A DPL file is a sequence of lines.  A data line is a row of three or more
\* tab-separated fields, of which the code reads the first, the second, and
\* the name behind the marker 720896 where the line holds one; a field is a
\* datapoint name with the element behind its first dot.  The other lines
\* are section headers ("# name"), column headers, and in # DpType the line of
\* a root type and the lines of its elements, which start with a tab.
Field(n, e) == [name |-> n, el |-> e]

NoField == Field("", "")

Sec(n) == [k |-> "sec", f1 |-> Field(n, ""), f2 |-> NoField, ref |-> NoField]

ColHead == [k |-> "head", f1 |-> NoField, f2 |-> NoField, ref |-> NoField]

\* DpName <tab> TypeName <tab> ID
DpRow(dp, type) ==
    [k |-> "row", f1 |-> Field(dp, ""), f2 |-> Field(type, ""), ref |-> NoField]

\* Manager/User <tab> ElementName <tab> ...
ValRow(dp) ==
    [k |-> "row", f1 |-> Field("UI", ""), f2 |-> Field(dp, "Value"), ref |-> NoField]

\* a CNS node whose data field is 720896 <dp>.<element>
CnsRow(dp) ==
    [k |-> "row", f1 |-> Field("node", ""), f2 |-> Field("view", ""),
     ref |-> Field(dp, "Value")]

TypeRoot(t) == [k |-> "troot", f1 |-> Field(t, t), f2 |-> NoField, ref |-> NoField]

TypeSub(t) == [k |-> "tsub", f1 |-> Field(t, "el"), f2 |-> NoField, ref |-> NoField]

\* lines 49-59: 'DpName.element.sub' -> 'DpName'
extract_dp_name(field) == field.name

\* parts[0].strip() taken whole: the name, when the field holds no dot
WholeName(field) == IF field.el = "" THEN field.name ELSE "?"

DpIdSec == "# Datapoint/DpId"

Field2Sections ==
    {"# DpValue", "# DistributionInfo", "# DpConvRawToIngMain", "# DpConvIngToRawMain",
     "# PeriphAddrMain", "# DbArchiveInfo", "# AlertValue"}

\* lines 62-84: the sections of a text with 0-based line numbers, the header
\* line first; the lines before the first header are the section __header__
parse_sections(lines) ==
    LET n == Len(lines)
        heads == {i \in 0..(n - 1) : lines[i + 1].k = "sec"}
        nextHead(i) == IF \E h \in heads : h > i
                       THEN CHOOSE h \in heads : h > i /\ \A g \in heads : g > i => h <= g
                       ELSE n
    IN  {[name |-> "__header__", start |-> 0, end |-> nextHead(-1)]}
            \cup {[name |-> lines[h + 1].f1.name, start |-> h, end |-> nextHead(h)] : h \in heads}

\* range(sec_start + 1, sec_end)
BodyOf(s) == (s.start + 1)..(s.end - 1)

\* lines 88-110: the names of the rows of every # Datapoint/DpId section of
\* every DPL file of the cabinet
collect_all_dps(files) ==
    UNION {UNION {{WholeName(files[f][i + 1].f1) : i \in {j \in BodyOf(s) : files[f][j + 1].k = "row"}} :
                    s \in {t \in parse_sections(files[f]) : t.name = DpIdSec}} :
            f \in DOMAIN files}

\* lines 131-207: the lines one section gives to remove_lines
SectionHits(lines, s, remove_dps, existing_dps, clean_cns) ==
    LET rows == {i \in BodyOf(s) : lines[i + 1].k = "row"}
    IN  IF s.name = DpIdSec
            THEN {i \in rows : WholeName(lines[i + 1].f1) \in remove_dps}
        ELSE IF s.name = "# Aliases/Comments"
            THEN {i \in rows : extract_dp_name(lines[i + 1].f1) \in remove_dps}
        ELSE IF s.name \in Field2Sections \cup {"# DpFunction"}
            THEN {i \in rows : extract_dp_name(lines[i + 1].f2) \in remove_dps}
        ELSE IF s.name = "# CNS" /\ clean_cns
            THEN {i \in BodyOf(s) :
                    /\ lines[i + 1].ref # NoField
                    /\ \/ extract_dp_name(lines[i + 1].ref) \in remove_dps
                       \/ extract_dp_name(lines[i + 1].ref) \notin existing_dps}
        ELSE {}

\* lines 212-223: the types of the datapoint rows that stay
RemainingTypes(lines, sections, remove_lines) ==
    UNION {{WholeName(lines[i + 1].f2) :
                i \in {j \in BodyOf(s) \ remove_lines : lines[j + 1].k = "row"}} :
            s \in {t \in sections : t.name = DpIdSec}}

\* lines 228-247: the type a line of # DpType is filed under: that of the last
\* root line at or before it in the section, "" when there is none
TypeOfLine(lines, s, i) ==
    LET roots == {j \in BodyOf(s) : j <= i /\ lines[j + 1].k = "troot"}
    IN  IF lines[i + 1].k \notin {"troot", "tsub"} \/ roots = {} THEN ""
        ELSE lines[(CHOOSE j \in roots : \A g \in roots : g <= j) + 1].f1.name

\* lines 226-253: the lines of the types no datapoint row that stays has
UnusedTypeLines(lines, sections, remove_lines) ==
    UNION {{i \in BodyOf(s) :
                /\ TypeOfLine(lines, s, i) # ""
                /\ TypeOfLine(lines, s, i) \notin RemainingTypes(lines, sections, remove_lines)} :
            s \in {t \in sections : t.name = "# DpType"}}

\* lines 120-253: remove_lines of clean_dpl_file
RemoveLines(lines, remove_dps, all_existing_dps, clean_cns, remove_unused_types) ==
    LET sections == parse_sections(lines)
        existing_dps == all_existing_dps \ remove_dps
        hits == UNION {SectionHits(lines, s, remove_dps, existing_dps, clean_cns) :
                            s \in sections}
    IN  hits \cup (IF remove_unused_types THEN UnusedTypeLines(lines, sections, hits) ELSE {})

\* line 259: the lines whose 0-based number is not in remove_lines
RECURSIVE KeptLines(_, _, _)
KeptLines(lines, remove_lines, i) ==
    IF i >= Len(lines) THEN <<>>
    ELSE (IF i \in remove_lines THEN <<>> ELSE <<lines[i + 1]>>)
            \o KeptLines(lines, remove_lines, i + 1)

\* the rows of a section, one for each of the names that are given
RowsFor(names, given, Row(_)) ==
    LET sel == SelectSeq(names, LAMBDA n : n \in given)
    IN  [i \in 1..Len(sel) |-> Row(sel[i])]

TypeForDp(dp) == IF dp = "P" THEN "T1" ELSE "T2"

DpRowOf(dp) == DpRow(dp, TypeForDp(dp))

\* the file of the datapoints: the datapoints P and Q, their values, CNS
\* entries, and the types T1 and T2
DpFiles ==
    {<<Sec(DpIdSec), ColHead>> \o RowsFor(<<"P", "Q">>, dps, DpRowOf)
        \o (IF vals THEN <<Sec("# DpValue"), ColHead, ValRow("P"), ValRow("Q")>> ELSE <<>>)
        \o <<Sec("# CNS")>> \o RowsFor(<<"P", "R">>, cns, CnsRow)
        \o (IF types THEN <<Sec("# DpType"), ColHead, TypeRoot("T1"), TypeSub("T1"),
                              TypeRoot("T2")>>
            ELSE <<>>) :
        dps \in SUBSET {"P", "Q"}, vals \in BOOLEAN, cns \in SUBSET {"P", "R"},
        types \in BOOLEAN}

\* cns.dpl: entries for P, Q and R; no file holds a datapoint R
CnsFiles ==
    {<<Sec("# CNS")>> \o RowsFor(<<"P", "Q", "R">>, cns, CnsRow) : cns \in SUBSET {"P", "Q", "R"}}

\* the DPL folder of the cabinet and the command line; --remove and
\* --remove-file together give the one set remove
DplInit ==
    /\ prog = "cd"
    /\ pc = "start"
    /\ run = 1
    /\ apply = FALSE
    /\ mnemo = <<>>
    /\ shared = <<>>
    /\ \E a \in DpFiles, c \in CnsFiles :
        /\ objs = [f \in {"a.dpl", "cns.dpl"} |-> IF f = "a.dpl" THEN a ELSE c]
        /\ fs0 = [mnemo |-> <<>>, objs |-> objs, shared |-> <<>>]
    /\ \E r \in {{}, {"P"}, {"P", "Q"}}, o, t, d \in BOOLEAN :
        loc = [remove |-> r, clean_cns_orphans |-> o, remove_unused_types |-> t,
               dry_run |-> d]
    /\ hist = <<>>
    /\ audit = {}
    /\ report = {}

\* main, lines 305-319: the removal list, and exit 1 when there is nothing to do
CdArgs ==
    /\ prog = "cd"
    /\ pc = "start"
    /\ loc' = [remove |-> loc.remove, clean_cns_orphans |-> loc.clean_cns_orphans,
               remove_unused_types |-> loc.remove_unused_types, dry_run |-> loc.dry_run,
               remove_dps |-> loc.remove, all_existing_dps |-> {}, todo |-> <<>>,
               removed |-> << >>]
    /\ pc' = IF loc.remove = {} /\ ~loc.clean_cns_orphans /\ ~loc.remove_unused_types
             THEN "exit1" ELSE "collect"
    /\ UNCHANGED <<prog, run, apply, mnemo, objs, shared, fs0, hist, audit, report>>

\* main, lines 342-345: all_existing_dps and the sorted list of the files
CdCollect ==
    /\ prog = "cd"
    /\ pc = "collect"
    /\ loc' = [loc EXCEPT !.all_existing_dps = collect_all_dps(objs),
                          !.todo = <<"a.dpl", "cns.dpl">>]
    /\ pc' = "files"
    /\ UNCHANGED <<prog, run, apply, mnemo, objs, shared, fs0, hist, audit, report>>

\* main, lines 345-366: clean_dpl_file on the next file, with its backup and
\* its statistics
CdFile ==
    /\ prog = "cd"
    /\ pc = "files"
    /\ loc.todo # <<>>
    /\ LET dpl_file == Head(loc.todo)
           is_cns == dpl_file = "cns.dpl"
           lines == objs[dpl_file]
           remove_lines == RemoveLines(lines, loc.remove_dps, loc.all_existing_dps,
                                       loc.clean_cns_orphans \/ is_cns,
                                       loc.remove_unused_types)
           writes == remove_lines # {} /\ ~loc.dry_run
       IN  /\ objs' = IF writes
                      THEN [objs EXCEPT ![dpl_file] = KeptLines(lines, remove_lines, 0)]
                      ELSE objs
           /\ audit' = IF writes THEN audit \cup {[backup |-> dpl_file, lines |-> lines]}
                       ELSE audit
           /\ report' = report \cup {[file |-> dpl_file, count |-> Cardinality(remove_lines)]}
           /\ loc' = [loc EXCEPT !.todo = Tail(@),
                                 !.removed = (dpl_file :> remove_lines) @@ @]
    /\ UNCHANGED <<prog, pc, run, apply, mnemo, shared, fs0, hist>>

\* main, lines 368-377: the totals
CdDone ==
    /\ prog = "cd"
    /\ pc = "files"
    /\ loc.todo = <<>>
    /\ pc' = "done"
    /\ UNCHANGED <<prog, run, apply, mnemo, objs, shared, fs0, loc, hist, audit, report>>

DplNext ==
    \/ CdArgs
    \/ CdCollect
    \/ CdFile
    \/ CdDone

DplSpec == DplInit /\ [][DplNext]_vars

\* the line names a datapoint of the removal list in a field the code reads
RefersToRemoved(line) ==
    /\ line.k = "row"
    /\ \/ extract_dp_name(line.f1) \in loc.remove
       \/ extract_dp_name(line.f2) \in loc.remove
       \/ extract_dp_name(line.ref) \in loc.remove

\* the 0-based numbers of the lines of file f that the run took out
GoneFrom(f) == IF loc.dry_run THEN {} ELSE loc.removed[f]

\* line i of file f defines a type that no datapoint row left in f has
UnusedTypeLine(f, i) ==
    /\ fs0.objs[f][i + 1].k \in {"troot", "tsub"}
    /\ fs0.objs[f][i + 1].f1.name
            \notin {objs[f][j].f2.name : j \in {g \in 1..Len(objs[f]) : objs[f][g].k = "row"}}

\* what a run without --clean-cns-orphans takes out of the files in F
OnlyRemovalListLines(F) ==
    \A f \in F :
        /\ objs[f] = KeptLines(fs0.objs[f], GoneFrom(f), 0)
        /\ \A i \in GoneFrom(f) :
            \/ RefersToRemoved(fs0.objs[f][i + 1])
            \/ loc.remove_unused_types /\ UnusedTypeLine(f, i)

\* C30: without --clean-cns-orphans, clean_dpl removes from the DPL files of
\* the cabinet, cns.dpl included, only lines that refer to a datapoint of the
\* removal list, and with --remove-unused-types the definitions of unused
\* types; a CNS entry for a datapoint outside the list stays
C30_OnlyListedLinesRemoved ==
    (prog = "cd" /\ pc = "done" /\ ~loc.clean_cns_orphans) =>
        OnlyRemovalListLines({"a.dpl", "cns.dpl"})

\* the same for the files other than cns.dpl
C30_HoldsOutsideCnsFile ==
    (prog = "cd" /\ pc = "done" /\ ~loc.clean_cns_orphans) =>
        OnlyRemovalListLines({"a.dpl"})

\* a run without --clean-cns-orphans that took rows of P out of a.dpl and left
\* its CNS entry for R
C30_RowsRemoved ==
    /\ prog = "cd"
    /\ pc = "done"
    /\ ~loc.clean_cns_orphans
    /\ ~loc.dry_run
    /\ loc.remove = {"P"}
    /\ Cardinality(loc.removed["a.dpl"]) >= 2
    /\ CnsRow("R") \in Range(objs["a.dpl"])

====
